---- MODULE Spec2Model ----
(***************************************************************************)
(* Browser automation session layer of Parser_2gis.                        *)
(*                                                                         *)
(*   SpecWait     wait_until_finished            (parser_2gis/common.py)   *)
(*   SpecBrowser  ChromeBrowser.start / close    (parser_2gis/chrome/      *)
(*                                                browser.py)              *)
(*   Spec         ChromeRemote and its monitor   (parser_2gis/chrome/      *)
(*                thread                          remote.py)               *)
(*   SpecStore    the response store of a        (parser_2gis/chrome/      *)
(*                session, with a second thread   remote.py)               *)
(*                                                                         *)
(* Time is counted in ticks of half a second: time.sleep(0.5) and          *)
(* Event.wait(0.5) are one tick, requests.get(timeout=1) is two ticks,     *)
(* Thread.join(timeout=2) is four ticks.                                   *)
(***************************************************************************)
EXTENDS Integers, Sequences, FiniteSets, TLC

VARIABLES
    \* ---- wait_until_finished: one call of a decorated function
    w_pc,           \* "check" | "call" | "sleep" | "done"
    w_timeout,      \* the decorator's timeout in ticks, or NoneTimeout
    w_throw,        \* the decorator's throw_exception
    w_elapsed,      \* time.time() - start_time, in ticks
    w_attempts,     \* invocations of func made so far
    w_sleeps,       \* time.sleep(0.5) calls made so far
    w_last,         \* outcome of the latest invocation of func
    w_result,       \* what the wrapper gave its caller
    \* ---- ChromeBrowser
    b_process,      \* self._process: "None" | "Popen"
    b_port,         \* self.remote_port: "None" | "port"
    b_dev_url,      \* self._dev_url: "None" | "url"
    b_os,           \* the OS process: "none" | "running" | "exited"
    b_killed,       \* the process was sent SIGKILL (kill())
    b_termed,       \* the process was sent the graceful signal
    b_pc,           \* position inside start()/close()
    b_ret,          \* where close() returns to
    b_i,            \* the poll loop's index i
    b_fails,        \* polls of this start() that failed
    b_call,         \* the API call in progress or last made
    b_entry,        \* what close() found when the API entered it
    b_orphan,       \* a handle was cleared while its process was running
    b_res,          \* outcome of the last API call
    \* ---- ChromeRemote
    chrome_browser, \* self._chrome_browser: "None" | "ChromeBrowser"
    dev_url,        \* self._dev_url: "None" | "url"
    chrome_tab,     \* self._chrome_tab: 0 (None) or the tab's number
    response_queues,\* self._response_queues: pattern -> queue
    requests,       \* self._requests
    ping_thread,    \* self._ping_thread: 0 (None) or the thread's number
    \* ---- pychrome.Tab objects, numbered in order of creation
    tab_status,     \* Tab.status: "none" (not created) | "initial" | "started" | "stopped"
    tab_stopped,    \* Tab._stopped, the Event
    tab_ws,         \* the tab's websocket is connected
    tab_send,       \* Tab._send: 0 the original, t the wrapped_send made for tab t
    tab_listed,     \* the browser's /json listing holds the tab's id
    \* ---- one _init_tab_monitor call per tab t: its closure and its thread
    tab_detached,   \* the closure's tab_detached
    m_pc,           \* where thread t is inside monitor_tab
    m_timer,        \* ticks left of the thread's blocking call
    m_event,        \* the tab whose Event the thread waits on
    m_missing,      \* thread t has seen the tab id missing from the listing
    \* ---- the caller's thread
    pc,             \* "idle", or the position inside start()/stop()/an operation
    call,           \* the API call in progress or last made
    api_phase,      \* what the caller has done: Unstarted/Starting/Connected/Failed/Stopped
    c_attempts,     \* failed invocations of _connect_interface in this start()
    join_left,      \* ticks left of join(timeout=2)
    snap,           \* the session's fields when stop() was entered
    \* ---- network exchanges, numbered in order of recording
    ex_url,         \* the URL of exchange n, "none" while n is not recorded
    clear_mark,     \* the exchanges recorded before the last clear_requests()
                    \* call that has returned are 1..clear_mark
    \* ---- a second thread using the session's store
    t_pc,           \* "idle", or its position inside wait_response()
    t_call,         \* its wait_response() call
    \* ---- one call of wait_for_selector
    s_variant,      \* which remote.py runs: "package" (parser_2gis/chrome) | "draft" (chrome)
    s_pc,           \* "idle", or the position inside wait_for_selector()
    s_timeout,      \* the timeout argument, in ticks
    s_elapsed,      \* time.time() - start_time, in ticks
    s_polls,        \* passes through the loop body so far
    s_issued,       \* protocol calls the polls have made
    s_present,      \* the page holds an element for the selector of the call
    s_res,          \* what the call returned or raised
    \* ---- history
    prev_res,       \* outcome of the caller's previous operation, where kept
    \* ---- TaskQueue (backend/services/task_queue.py)
    tq_tasks,       \* self._tasks: report id -> status and report, "absent" before add_task
    tq_queue,       \* self._queue: the report ids put and not yet got
    tq_valid,       \* whether the report id of the task parses as a UUID
    tq_pc,          \* the process_tasks() task: "off" | "waiting" | "sleeping" | "ended"
    tq_cur,         \* report_id of the loop's current pass, 0 for None
    tq_seen,        \* what the last get_task_info() returned
    \* ---- CLIRunner.start (runner/cli.py)
    r_pc,           \* "idle" | "parse" | "handle" | "finished"
    r_urls,         \* len(self._target_urls)
    r_writer,       \* whether a writer was built (output path and format given)
    r_i,            \* index of the URL the loop is at
    r_out,          \* per URL: how its parse ended, "none" when not attempted
    r_err,          \* the exception that left the loop, "none" without one
    \* ---- CompanyFinder.find_company_cards (finder/company_finder.py)
    f_pc,           \* "idle" | the position inside find_company_cards()
    f_remote,       \* self._chrome_remote: 0 for None, else the session's number
    f_made,         \* sessions constructed so far
    f_stops,        \* per session: calls of stop() on it
    f_step,         \* operations of _find_urls done in this call
    f_res           \* how the last call ended

wvars == <<w_pc, w_timeout, w_throw, w_elapsed, w_attempts, w_sleeps, w_last, w_result>>
bvars == <<b_process, b_port, b_dev_url, b_os, b_killed, b_termed, b_pc, b_ret, b_i,
           b_fails, b_call, b_entry, b_orphan, b_res>>
remote_vars == <<chrome_browser, dev_url, chrome_tab, response_queues, requests,
                 ping_thread>>
tab_vars == <<tab_status, tab_stopped, tab_ws, tab_send, tab_listed>>
mon_vars == <<tab_detached, m_pc, m_timer, m_event, m_missing>>
caller_vars == <<pc, call, api_phase, c_attempts, join_left, snap>>
svars == <<remote_vars, tab_vars, mon_vars, caller_vars>>
store_vars == <<ex_url, clear_mark, t_pc, t_call>>
sel_vars == <<s_variant, s_pc, s_timeout, s_elapsed, s_polls, s_issued, s_present,
             s_res>>
ledger_vars == <<tq_tasks, tq_queue, tq_valid, tq_pc, tq_cur, tq_seen>>
runner_vars == <<r_pc, r_urls, r_writer, r_i, r_out, r_err>>
finder_vars == <<f_pc, f_remote, f_made, f_stops, f_step, f_res>>
app_vars == <<runner_vars, finder_vars>>
vars == <<wvars, bvars, svars, store_vars, sel_vars, prev_res, ledger_vars, app_vars>>

\* Frames: a step of one component leaves the others alone.
OnlyWait == UNCHANGED <<bvars, svars, store_vars, sel_vars, prev_res, ledger_vars, app_vars>>
OnlyBrowser == UNCHANGED <<wvars, svars, store_vars, sel_vars, prev_res, ledger_vars, app_vars>>
OnlySession == UNCHANGED <<wvars, bvars, store_vars, sel_vars, prev_res, ledger_vars, app_vars>>
OnlyStore == UNCHANGED <<wvars, bvars, sel_vars, prev_res, ledger_vars, app_vars>>
OnlySelector == UNCHANGED <<wvars, bvars, svars, store_vars, prev_res, ledger_vars, app_vars>>
OnlyLedger == UNCHANGED <<wvars, bvars, svars, store_vars, sel_vars, prev_res, app_vars>>
OnlyRunner ==
    UNCHANGED <<wvars, bvars, svars, store_vars, sel_vars, prev_res, ledger_vars,
                finder_vars>>
OnlyFinder ==
    UNCHANGED <<wvars, bvars, svars, store_vars, sel_vars, prev_res, ledger_vars,
                runner_vars>>

(***************************************************************************)
(* wait_until_finished                                                     *)
(***************************************************************************)

\* Largest numeric timeout tried, in ticks.
MaxWaitTimeout == 3
\* Longest single invocation of func, in ticks.
MaxAttemptTicks == 2
\* time.sleep(0.5)
Backoff == 1

\* timeout=None, as get_responses passes it (no number of ticks)
NoneTimeout == -1
FuncName == "func.__name__"
\* What func may return: falsy values are returned like any other.
FuncValues == {"None", "False", "value"}

WaitTimeouts == (0..MaxWaitTimeout) \cup {NoneTimeout}

NoOutcome == [kind |-> "none"]
Returned(v) == [kind |-> "return", val |-> v]
Raised(e, n) == [kind |-> "raise", exc |-> e, name |-> n]
NoResult == [kind |-> "pending"]

\* while time.time() - start_time < timeout
DeadlineOpen(elapsed, timeout) == elapsed < timeout

\* Mutant: the flag is ignored and the empty result is returned.
OnElapse_NeverThrows(throw_exception) == Returned("None")

\* After the loop: raise TimeoutError naming func, or return None.
OnElapse(throw_exception) ==
    IF throw_exception THEN Raised("TimeoutError", FuncName) ELSE Returned("None")

\* Mutant: the except clause re-raises what the attempt raised.
OnAttemptError_Reraise(at, res) ==
    [at |-> "done", res |-> Raised("AttemptError", FuncName)]

\* except Exception: time.sleep(0.5)
OnAttemptError(at, res) == [at |-> "sleep", res |-> res]

WaitIdle ==
    /\ w_pc = "idle" /\ w_timeout = 0 /\ w_throw = FALSE /\ w_elapsed = 0
    /\ w_attempts = 0 /\ w_sleeps = 0 /\ w_last = NoOutcome /\ w_result = NoResult

\* The wrapper is entered: start_time = time.time()
WaitInit ==
    /\ w_pc = "check"
    /\ w_timeout \in WaitTimeouts
    /\ w_throw \in BOOLEAN
    /\ w_elapsed = 0
    /\ w_attempts = 0
    /\ w_sleeps = 0
    /\ w_last = NoOutcome
    /\ w_result = NoResult

\* The loop condition and the code after the loop.
WaitCheck ==
    /\ OnlyWait
    /\ w_pc = "check"
    /\ IF w_timeout = NoneTimeout
       THEN \* float < None raises TypeError before func is ever invoked
            /\ w_pc' = "done"
            /\ w_result' = Raised("TypeError", "wrapper")
       ELSE IF DeadlineOpen(w_elapsed, w_timeout)
       THEN /\ w_pc' = "call"
            /\ UNCHANGED w_result
       ELSE /\ w_pc' = "done"
            /\ w_result' = OnElapse(w_throw)
    /\ UNCHANGED <<w_timeout, w_throw, w_elapsed, w_attempts, w_sleeps, w_last>>

\* return func(*args, **kwargs): the invocation returns v after d ticks.
WaitAttemptReturns ==
    /\ OnlyWait
    /\ w_pc = "call"
    /\ \E v \in FuncValues, d \in 0..MaxAttemptTicks :
         /\ w_elapsed' = w_elapsed + d
         /\ w_last' = [kind |-> "ok", val |-> v]
         /\ w_result' = Returned(v)
    /\ w_attempts' = w_attempts + 1
    /\ w_pc' = "done"
    /\ UNCHANGED <<w_timeout, w_throw, w_sleeps>>

\* func raises an Exception after d ticks.
WaitAttemptRaises ==
    /\ OnlyWait
    /\ w_pc = "call"
    /\ \E d \in 0..MaxAttemptTicks : w_elapsed' = w_elapsed + d
    /\ w_last' = [kind |-> "exc"]
    /\ w_attempts' = w_attempts + 1
    /\ LET n == OnAttemptError(w_pc, w_result)
       IN  w_pc' = n.at /\ w_result' = n.res
    /\ UNCHANGED <<w_timeout, w_throw, w_sleeps>>

\* time.sleep(0.5)
WaitSleep ==
    /\ OnlyWait
    /\ w_pc = "sleep"
    /\ w_elapsed' = w_elapsed + Backoff
    /\ w_sleeps' = w_sleeps + 1
    /\ w_pc' = "check"
    /\ UNCHANGED <<w_timeout, w_throw, w_attempts, w_last, w_result>>

WaitNext == WaitCheck \/ WaitAttemptReturns \/ WaitAttemptRaises \/ WaitSleep

(***************************************************************************)
(* ChromeBrowser                                                           *)
(***************************************************************************)

\* max_retries = 15
max_retries == 15

BrowserIdle ==
    /\ b_process = "None" /\ b_port = "None" /\ b_dev_url = "None"
    /\ b_os = "none" /\ b_killed = FALSE /\ b_termed = FALSE
    /\ b_pc = "idle" /\ b_ret = "api" /\ b_i = 0 /\ b_fails = 0
    /\ b_call = "none"
    /\ b_entry = [process |-> "None", termed |-> FALSE, killed |-> FALSE]
    /\ b_orphan = FALSE
    /\ b_res = "none"

\* ChromeBrowser.__init__: no process yet, no port.
BrowserInit == BrowserIdle

\* Enter close(): from the API (b_ret = "api") or from inside start().
EnterClose(ret) ==
    /\ b_pc' = "c_entry"
    /\ b_ret' = ret

\* start(): the guard and subprocess.Popen.
BStartCall ==
    /\ OnlyBrowser
    /\ b_pc = "idle"
    /\ b_call' = "start"
    /\ b_i' = 0
    /\ b_fails' = 0
    /\ IF b_process # "None"
       THEN \* if self._process is not None: return
            /\ b_res' = "returned"
            /\ UNCHANGED <<b_process, b_os, b_killed, b_termed, b_pc, b_ret>>
       ELSE \/ \* Popen succeeds
               /\ b_process' = "Popen"
               /\ b_os' = "running"
               /\ b_killed' = FALSE
               /\ b_termed' = FALSE
               /\ b_pc' = "settle"
               /\ b_res' = "pending"
               /\ UNCHANGED b_ret
            \/ \* Popen raises FileNotFoundError or another error:
               \* self.close(), then raise ChromeException
               /\ EnterClose("raise")
               /\ b_res' = "pending"
               /\ UNCHANGED <<b_process, b_os, b_killed, b_termed>>
    /\ UNCHANGED <<b_port, b_dev_url, b_entry, b_orphan>>

\* time.sleep(5), then self._process.poll().
BSettle ==
    /\ OnlyBrowser
    /\ b_pc = "settle"
    /\ IF b_os = "exited"
       THEN \* raise ChromeException -> except Exception: self.close(); raise
            /\ EnterClose("raise")
            /\ UNCHANGED <<b_port, b_dev_url>>
       ELSE /\ b_port' = "port"
            /\ b_dev_url' = "url"
            /\ b_pc' = "poll"
            /\ UNCHANGED b_ret
    /\ UNCHANGED <<b_process, b_os, b_killed, b_termed, b_i, b_fails, b_call,
                   b_entry, b_orphan, b_res>>

\* requests.get(dev_url + "/json") answers: break out of the loop.
BPollOk ==
    /\ OnlyBrowser
    /\ b_pc = "poll"
    /\ b_pc' = "idle"
    /\ b_res' = "started"
    /\ UNCHANGED <<b_process, b_port, b_dev_url, b_os, b_killed, b_termed, b_ret,
                   b_i, b_fails, b_call, b_entry, b_orphan>>

\* if i == max_retries - 1: self.close(); raise ChromeException
AfterLastPoll == EnterClose("exhaust") /\ UNCHANGED b_res

\* requests.get raises RequestException.
BPollFail ==
    /\ OnlyBrowser
    /\ b_pc = "poll"
    /\ b_fails' = b_fails + 1
    /\ IF b_i = max_retries - 1
       THEN AfterLastPoll /\ UNCHANGED b_i
       ELSE \* time.sleep(2); next i
            /\ b_i' = b_i + 1
            /\ UNCHANGED <<b_pc, b_ret, b_res>>
    /\ UNCHANGED <<b_process, b_port, b_dev_url, b_os, b_killed, b_termed, b_call,
                   b_entry, b_orphan>>

\* The API call close().
BCloseCall ==
    /\ OnlyBrowser
    /\ b_pc = "idle"
    /\ b_call' = "close"
    /\ b_res' = "pending"
    /\ b_entry' = [process |-> b_process, termed |-> b_termed, killed |-> b_killed]
    /\ EnterClose("api")
    /\ UNCHANGED <<b_process, b_port, b_dev_url, b_os, b_killed, b_termed, b_i,
                   b_fails, b_orphan>>

\* Where close() goes when it returns.
CloseReturns ==
    CASE b_ret = "api" -> b_pc' = "idle" /\ b_res' = "closed" /\ UNCHANGED b_ret
      [] b_ret = "exhaust" ->
            \* line 86 raises; except Exception (line 95): self.close() again
            EnterClose("raise") /\ UNCHANGED b_res
      [] OTHER -> b_pc' = "idle" /\ b_res' = "ChromeException" /\ UNCHANGED b_ret

\* close(): if self._process is None: return; if self._process.poll() is None
BCloseEntry ==
    /\ OnlyBrowser
    /\ b_pc = "c_entry"
    /\ IF b_process = "None"
       THEN CloseReturns
       ELSE /\ b_pc' = IF b_os = "running" THEN "c_signal" ELSE "c_clear"
            /\ UNCHANGED <<b_ret, b_res>>
    /\ UNCHANGED <<b_process, b_port, b_dev_url, b_os, b_killed, b_termed, b_i,
                   b_fails, b_call, b_entry, b_orphan>>

\* send_signal(SIGTERM / CTRL_BREAK_EVENT).  It can raise only when the
\* process has gone since poll().
BCloseSignal ==
    /\ OnlyBrowser
    /\ b_pc = "c_signal"
    /\ \/ /\ b_termed' = (b_os = "running") \/ b_termed
          /\ b_pc' = "c_wait"
       \/ /\ b_os = "exited"
          /\ b_pc' = "c_kill_error"
          /\ UNCHANGED b_termed
    /\ UNCHANGED <<b_process, b_port, b_dev_url, b_os, b_killed, b_ret, b_i,
                   b_fails, b_call, b_entry, b_orphan, b_res>>

\* Mutant: after TimeoutExpired the process is left alone.
OnGraceTimeout_NoKill == "c_clear"

\* except subprocess.TimeoutExpired: self._process.kill()
OnGraceTimeout == "c_kill_timeout"

\* Mutant: the kill follows the wait however the wait ended.
AfterGraceWait_AlwaysKill(os) == OnGraceTimeout

\* try: self._process.wait(timeout=10) -- it returns when the process has
\* exited and raises TimeoutExpired when the ten seconds are over
AfterGraceWait(os) == IF os = "exited" THEN "c_clear" ELSE OnGraceTimeout

\* self._process.wait(timeout=10)
BCloseWait ==
    /\ OnlyBrowser
    /\ b_pc = "c_wait"
    /\ b_pc' = AfterGraceWait(b_os)
    /\ UNCHANGED <<b_process, b_port, b_dev_url, b_os, b_killed, b_termed, b_ret,
                   b_i, b_fails, b_call, b_entry, b_orphan, b_res>>

\* kill(); wait() after the grace period timed out.
BCloseKill ==
    /\ OnlyBrowser
    /\ b_pc = "c_kill_timeout"
    /\ \/ /\ b_killed' = (b_os = "running") \/ b_killed
          /\ b_os' = "exited"
          /\ b_pc' = "c_clear"
       \/ \* the process went on its own and kill() raises
          /\ b_os = "exited"
          /\ b_pc' = "c_kill_error"
          /\ UNCHANGED <<b_killed, b_os>>
    /\ UNCHANGED <<b_process, b_port, b_dev_url, b_termed, b_ret, b_i, b_fails,
                   b_call, b_entry, b_orphan, b_res>>

\* Mutant: the handler's kill is not wrapped in try, so its error leaves
\* close() and nothing is cleared.
KillErrorRaised_Propagates ==
    /\ b_pc' = "idle"
    /\ b_res' = "raised"

\* except Exception as kill_e: print(...)
KillErrorRaised ==
    /\ b_pc' = "c_clear"
    /\ UNCHANGED b_res

\* except Exception as e: try: kill(); wait() except Exception: print
BCloseKillAfterError ==
    /\ OnlyBrowser
    /\ b_pc = "c_kill_error"
    /\ \/ /\ b_killed' = (b_os = "running") \/ b_killed
          /\ b_os' = "exited"
          /\ b_pc' = "c_clear"
          /\ UNCHANGED b_res
       \/ /\ b_os = "exited"
          /\ KillErrorRaised
          /\ UNCHANGED <<b_killed, b_os>>
    /\ UNCHANGED <<b_process, b_port, b_dev_url, b_termed, b_ret, b_i, b_fails,
                   b_call, b_entry, b_orphan>>

\* self._process = None; self.remote_port = None; self._dev_url = None
BCloseClear ==
    /\ OnlyBrowser
    /\ b_pc = "c_clear"
    /\ b_process' = "None"
    /\ b_port' = "None"
    /\ b_dev_url' = "None"
    /\ b_orphan' = (b_orphan \/ b_os = "running")
    /\ CloseReturns
    /\ UNCHANGED <<b_os, b_killed, b_termed, b_i, b_fails, b_call, b_entry>>

\* The browser process ends on its own: a crash, or its answer to the
\* graceful signal.
BProcExit ==
    /\ OnlyBrowser
    /\ b_os = "running"
    /\ b_os' = "exited"
    /\ UNCHANGED <<b_process, b_port, b_dev_url, b_killed, b_termed, b_pc, b_ret,
                   b_i, b_fails, b_call, b_entry, b_orphan, b_res>>

BrowserNext ==
    \/ BStartCall \/ BSettle \/ BPollOk \/ BPollFail
    \/ BCloseCall \/ BCloseEntry \/ BCloseSignal \/ BCloseWait
    \/ BCloseKill \/ BCloseKillAfterError \/ BCloseClear
    \/ BProcExit

(***************************************************************************)
(* ChromeRemote: the session, its tab and its monitor thread               *)
(***************************************************************************)

\* Tabs one session object creates over its life.
MaxTabs == 2
\* Failed invocations of _connect_interface before its 60 s have surely
\* elapsed.
MaxConnectAttempts == 2

\* self._chrome_tab._stopped.wait(0.5)
StoppedWait == 1
\* requests.get(f'{self._dev_url}/json', timeout=1)
PollTimeout == 2
\* self._ping_thread.join(timeout=2)
JoinTimeout_Short == PollTimeout - 1
JoinTimeout == 4

Tabs == 1..MaxTabs
\* response_patterns given to __init__
Patterns == {"p1", "p2"}
\* Patterns a caller may pass to wait_response: "p0" was never registered.
AskedPatterns == Patterns \cup {"p0"}
NoQueues == [x \in {} |-> <<>>]

\* Exchanges the browser produces during one session object's life.
MaxExchanges == 2
Exchanges == 1..MaxExchanges
\* URLs: "u1" matches only "p1", "u2" only "p2", "u0" no pattern.
Urls == {"u1", "u2", "u0"}
Matches(p, u) == (p = "p1" /\ u = "u1") \/ (p = "p2" /\ u = "u2")

\* Mutant: the newest entry is handed out while the oldest is removed.
QueueGet_Newest(q) == q[Len(q)]

\* queue.Queue.get(block=False): the oldest entry
QueueGet(q) == Head(q)

\* The pattern has a queue and the queue holds an entry (neither KeyError
\* nor queue.Empty).
CanTake(p) == p \in DOMAIN response_queues /\ response_queues[p] # <<>>

Operations == {"navigate", "execute_script", "call_function_on", "get_document",
               "wait_for_selector", "wait_response", "perform_click",
               "perform_click_by_selector"}

\* The thread has ended: monitor_tab returned, or an error left it.
Ended(t) == m_pc[t] \in {"none", "done", "crashed"}
\* Thread.is_alive()
IsAlive(t) == ~Ended(t)
\* Positions where the thread computes; "m_poll" and "m_waiting" block.
Computing(t) == m_pc[t] \in {"m_while", "m_try", "m_set_det", "m_set_stop",
                             "m_h_det", "m_h_stop", "m_wait"}

NoCall == [op |-> "none", res |-> "none", issued |-> 0, phase |-> "Unstarted",
           tab |-> 0, i |-> 0, flagged |-> FALSE, missing |-> FALSE,
           endflagged |-> FALSE, pat |-> "none", got |-> 0, seen |-> {},
           mark |-> 0, reply |-> "none", done |-> {}, raised |-> "none",
           det |-> FALSE]

SessionFields ==
    [browser |-> chrome_browser, url |-> dev_url, tab |-> chrome_tab,
     queues |-> response_queues, requests |-> requests, thread |-> ping_thread,
     status |-> tab_status, stopped |-> tab_stopped, ws |-> tab_ws]

NoSnap == [browser |-> "None"]

\* ChromeRemote.__init__
RemoteInit ==
    /\ chrome_browser = "None"
    /\ dev_url = "None"
    /\ chrome_tab = 0
    /\ response_queues = [x \in Patterns |-> <<>>]
    /\ requests = {}
    /\ ping_thread = 0
    /\ tab_status = [t \in Tabs |-> "none"]
    /\ tab_stopped = [t \in Tabs |-> FALSE]
    /\ tab_ws = [t \in Tabs |-> FALSE]
    /\ tab_send = [t \in Tabs |-> 0]
    /\ tab_listed = [t \in Tabs |-> FALSE]
    /\ tab_detached = [t \in Tabs |-> FALSE]
    /\ m_pc = [t \in Tabs |-> "none"]
    /\ m_timer = [t \in Tabs |-> 0]
    /\ m_event = [t \in Tabs |-> 0]
    /\ m_missing = [t \in Tabs |-> FALSE]
    /\ pc = "idle"
    /\ call = NoCall
    /\ api_phase = "Unstarted"
    /\ c_attempts = 0
    /\ join_left = 0
    /\ snap = NoSnap

RemoteIdle == RemoteInit

(***************************************************************************)
(* monitor_tab, run by thread t.  Every read of self._chrome_tab is a read *)
(* of the session's field at that moment.                                  *)
(***************************************************************************)

\* A step of a monitor thread.  No thread runs between an API call's last
\* step and the hand-over of its outcome (Return), which changes nothing a
\* thread reads.
MonitorFrame ==
    /\ pc # "returned"
    /\ UNCHANGED <<remote_vars, tab_status, tab_ws, tab_send, tab_listed,
                   caller_vars>>

\* while not self._chrome_tab._stopped.is_set(): outside the try, so with
\* self._chrome_tab None the AttributeError ends the thread.
MWhile(t) ==
    /\ OnlySession
    /\ m_pc[t] = "m_while"
    /\ m_pc' = [m_pc EXCEPT ![t] =
                  IF chrome_tab = 0 THEN "crashed"
                  ELSE IF tab_stopped[chrome_tab] THEN "done" ELSE "m_try"]
    /\ UNCHANGED <<tab_stopped, tab_detached, m_timer, m_event, m_missing>>
    /\ MonitorFrame

\* if not self._dev_url: break; else requests.get(..., timeout=1) begins
MTry(t) ==
    /\ OnlySession
    /\ m_pc[t] = "m_try"
    /\ IF dev_url = "None"
       THEN m_pc' = [m_pc EXCEPT ![t] = "done"] /\ UNCHANGED m_timer
       ELSE /\ m_pc' = [m_pc EXCEPT ![t] = "m_poll"]
            /\ m_timer' = [m_timer EXCEPT ![t] = PollTimeout]
    /\ UNCHANGED <<tab_stopped, tab_detached, m_event, m_missing>>
    /\ MonitorFrame

\* Mutant: a listing without the tab is taken like one with it.
OnListing_Ignored(listed) == "m_wait"

\* if not any(...): the two flags and break; else the wait
OnListing(listed) == IF listed THEN "m_wait" ELSE "m_set_det"

\* The listing arrives: any(x['id'] == self._chrome_tab.id for x in ret.json())
MPollListing(t) ==
    /\ OnlySession
    /\ m_pc[t] = "m_poll"
    /\ IF chrome_tab = 0
       THEN \* AttributeError inside the try: except Exception
            /\ m_pc' = [m_pc EXCEPT ![t] = "m_h_det"]
            /\ UNCHANGED m_missing
       ELSE /\ m_pc' = [m_pc EXCEPT ![t] = OnListing(tab_listed[chrome_tab])]
            /\ m_missing' = [m_missing EXCEPT ![t] = @ \/ ~tab_listed[chrome_tab]]
    /\ m_timer' = [m_timer EXCEPT ![t] = 0]
    /\ UNCHANGED <<tab_stopped, tab_detached, m_event>>
    /\ MonitorFrame

\* The poll raises: a connection error, requests.Timeout, an HTTP error.
MPollError(t) ==
    /\ OnlySession
    /\ m_pc[t] = "m_poll"
    /\ m_pc' = [m_pc EXCEPT ![t] = "m_h_det"]
    /\ m_timer' = [m_timer EXCEPT ![t] = 0]
    /\ UNCHANGED <<tab_stopped, tab_detached, m_event, m_missing>>
    /\ MonitorFrame

\* Mutant (both assignments swapped): the stopped flag is set first.
MonitorFlagOrder_StopFirst == <<"stopped", "detached">>

\* tab_detached = True, then self._chrome_tab._stopped.set()
MonitorFlagOrder == <<"detached", "stopped">>

\* Setting the closure's tab_detached.
SetDetached(t, next) ==
    /\ tab_detached' = [tab_detached EXCEPT ![t] = TRUE]
    /\ m_pc' = [m_pc EXCEPT ![t] = next]
    /\ UNCHANGED tab_stopped

\* self._chrome_tab._stopped.set(); with self._chrome_tab None it raises
\* AttributeError, which takes the thread to onNone.
SetStopped(t, next, onNone) ==
    /\ IF chrome_tab = 0
       THEN m_pc' = [m_pc EXCEPT ![t] = onNone] /\ UNCHANGED tab_stopped
       ELSE /\ tab_stopped' = [tab_stopped EXCEPT ![chrome_tab] = TRUE]
            /\ m_pc' = [m_pc EXCEPT ![t] = next]
    /\ UNCHANGED tab_detached

\* Lines 135-137: the tab id was missing.
MSetDetached(t) ==
    /\ OnlySession
    /\ m_pc[t] = "m_set_det"
    /\ IF MonitorFlagOrder[1] = "detached"
       THEN SetDetached(t, "m_set_stop")
       ELSE SetStopped(t, "m_set_stop", "m_h_det")
    /\ UNCHANGED <<m_timer, m_event, m_missing>>
    /\ MonitorFrame

MSetStopped(t) ==
    /\ OnlySession
    /\ m_pc[t] = "m_set_stop"
    /\ IF MonitorFlagOrder[2] = "stopped"
       THEN SetStopped(t, "done", "m_h_det")
       ELSE SetDetached(t, "done")
    /\ UNCHANGED <<m_timer, m_event, m_missing>>
    /\ MonitorFrame

\* The except clauses (lines 140-151): tab_detached = True
MHandlerDetached(t) ==
    /\ OnlySession
    /\ m_pc[t] = "m_h_det"
    /\ SetDetached(t, "m_h_stop")
    /\ UNCHANGED <<m_timer, m_event, m_missing>>
    /\ MonitorFrame

\* ... then self._chrome_tab._stopped.set(); break.  An AttributeError
\* here is raised inside the handler and ends the thread.
MHandlerStopped(t) ==
    /\ OnlySession
    /\ m_pc[t] = "m_h_stop"
    /\ SetStopped(t, "done", "crashed")
    /\ UNCHANGED <<m_timer, m_event, m_missing>>
    /\ MonitorFrame

\* self._chrome_tab._stopped.wait(0.5) is entered.
MWaitEnter(t) ==
    /\ OnlySession
    /\ m_pc[t] = "m_wait"
    /\ IF chrome_tab = 0
       THEN /\ m_pc' = [m_pc EXCEPT ![t] = "m_h_det"]
            /\ UNCHANGED <<m_timer, m_event>>
       ELSE /\ m_pc' = [m_pc EXCEPT ![t] = "m_waiting"]
            /\ m_timer' = [m_timer EXCEPT ![t] = StoppedWait]
            /\ m_event' = [m_event EXCEPT ![t] = chrome_tab]
    /\ UNCHANGED <<tab_stopped, tab_detached, m_missing>>
    /\ MonitorFrame

\* The wait returns: the Event was set, or half a second has passed.
MWaitReturn(t) ==
    /\ OnlySession
    /\ m_pc[t] = "m_waiting"
    /\ tab_stopped[m_event[t]] \/ m_timer[t] = 0
    /\ m_pc' = [m_pc EXCEPT ![t] = "m_while"]
    /\ m_timer' = [m_timer EXCEPT ![t] = 0]
    /\ m_event' = [m_event EXCEPT ![t] = 0]
    /\ UNCHANGED <<tab_stopped, tab_detached, m_missing>>
    /\ MonitorFrame

\* Half a second passes.  A computing thread runs before the clock moves;
\* a blocking call ends no later than its timeout.
Tick ==
    /\ OnlySession
    /\ pc # "returned"
    /\ \A t \in Tabs :
         /\ ~Computing(t)
         /\ m_pc[t] = "m_poll" => m_timer[t] > 0
         /\ m_pc[t] = "m_waiting" => (m_timer[t] > 0 /\ ~tab_stopped[m_event[t]])
    /\ pc = "sp_joining" => join_left > 0
    /\ m_timer' = [t \in Tabs |-> IF m_timer[t] > 0 THEN m_timer[t] - 1 ELSE 0]
    /\ join_left' = IF join_left > 0 THEN join_left - 1 ELSE 0
    /\ UNCHANGED <<remote_vars, tab_vars, tab_detached, m_pc, m_event, m_missing,
                   pc, call, api_phase, c_attempts, snap>>

\* The browser drops the session's tab: it crashed or was closed from
\* outside.  Only the listing of the tab self._chrome_tab names is ever read.
TabLost(t) ==
    /\ OnlySession
    /\ pc # "returned"
    /\ t = chrome_tab
    /\ tab_status[t] # "none"
    /\ tab_listed[t]
    /\ tab_listed' = [tab_listed EXCEPT ![t] = FALSE]
    /\ UNCHANGED <<remote_vars, tab_status, tab_stopped, tab_ws, tab_send,
                   mon_vars, caller_vars>>

(***************************************************************************)
(* ChromeRemote.start()                                                    *)
(***************************************************************************)

\* Mutant: the tab object the session had is attached again.
FreshTab_Reattach ==
    IF chrome_tab # 0 THEN chrome_tab ELSE CHOOSE t \in Tabs : \A u \in Tabs : t <= u

\* The next tab number, 0 when MaxTabs tabs exist.
FreshTab ==
    IF \E t \in Tabs : tab_status[t] = "none"
    THEN CHOOSE t \in Tabs : tab_status[t] = "none" /\ \A u \in 1..(t-1) : tab_status[u] # "none"
    ELSE 0

Finish(op, res, phase) ==
    /\ pc' = "returned"
    /\ call' = [call EXCEPT !.op = op, !.res = res]
    /\ api_phase' = phase

\* Mutant: start() has no guard.
AlreadyStarted_Never(browser) == FALSE

\* if self._chrome_browser is not None: return
AlreadyStarted(browser) == browser # "None"

\* start(): the guard, ChromeBrowser(options), self._dev_url = ...
StartCall ==
    /\ OnlySession
    /\ pc = "idle"
    /\ c_attempts' = 0
    /\ IF AlreadyStarted(chrome_browser)
       THEN \* if self._chrome_browser is not None: return
            /\ pc' = "returned"
            /\ call' = [NoCall EXCEPT !.op = "start", !.res = "already_started",
                                      !.phase = api_phase, !.tab = chrome_tab]
            /\ UNCHANGED <<chrome_browser, dev_url, api_phase>>
       ELSE \/ /\ chrome_browser' = "ChromeBrowser"
               /\ dev_url' = "url"
               /\ pc' = "st_connect"
               /\ call' = [NoCall EXCEPT !.op = "start", !.res = "pending",
                                         !.phase = api_phase, !.tab = chrome_tab]
               /\ api_phase' = "Starting"
            \/ \* ChromeBrowser.__init__ finds no executable: ChromeException
               /\ pc' = "returned"
               /\ call' = [NoCall EXCEPT !.op = "start", !.res = "ChromeException",
                                         !.phase = api_phase, !.tab = chrome_tab]
               /\ api_phase' = "Failed"
               /\ UNCHANGED <<chrome_browser, dev_url>>
    /\ UNCHANGED <<chrome_tab, response_queues, requests, ping_thread, tab_vars,
                   mon_vars, join_left, snap>>

\* One invocation of _connect_interface in which _create_tab answers:
\* self._chrome_tab = Tab(...), then self._chrome_tab.start().
\* Tab.start() marks the tab started before it opens the websocket.
StConnectTab ==
    /\ OnlySession
    /\ pc = "st_connect"
    /\ FreshTab # 0
    /\ LET t == FreshTab IN
       /\ chrome_tab' = t
       /\ tab_status' = [tab_status EXCEPT ![t] = "started"]
       /\ tab_listed' = [tab_listed EXCEPT ![t] = TRUE]
       /\ \/ \* the websocket opens: return True
             /\ tab_ws' = [tab_ws EXCEPT ![t] = TRUE]
             /\ pc' = "st_setup"
             /\ c_attempts' = 0
          \/ \* WebSocketException: caught, return False
             /\ pc' = "st_close_browser"
             /\ c_attempts' = 0
             /\ UNCHANGED tab_ws
          \/ \* another error (connection refused): it leaves
             \* _connect_interface and the wrapper sleeps and retries
             /\ pc' = "st_connect_retry"
             /\ c_attempts' = c_attempts + 1
             /\ UNCHANGED tab_ws
    /\ UNCHANGED <<chrome_browser, dev_url, response_queues, requests, ping_thread,
                   tab_stopped, tab_send, mon_vars, call, api_phase, join_left, snap>>

\* One invocation in which _create_tab raises ChromeException: the
\* except clause of _connect_interface does not name it, the wrapper's does.
StConnectNoTab ==
    /\ OnlySession
    /\ pc = "st_connect"
    /\ pc' = "st_connect_retry"
    /\ c_attempts' = c_attempts + 1
    /\ UNCHANGED <<remote_vars, tab_vars, mon_vars, call, api_phase, join_left, snap>>

\* wait_until_finished(timeout=60): after the sleep, the loop condition.
StConnectRetry ==
    /\ OnlySession
    /\ pc = "st_connect_retry"
    /\ \/ /\ c_attempts < MaxConnectAttempts
          /\ pc' = "st_connect"
          /\ UNCHANGED <<call, api_phase, c_attempts>>
       \/ \* the 60 s have elapsed: TimeoutError leaves start()
          /\ Finish("start", "TimeoutError", "Failed")
          /\ c_attempts' = 0
    /\ UNCHANGED <<remote_vars, tab_vars, mon_vars, join_left, snap>>

\* if not self._connect_interface(): close the browser and return
StCloseBrowser ==
    /\ OnlySession
    /\ pc = "st_close_browser"
    /\ chrome_browser' = "None"
    /\ Finish("start", "returned_unconnected", "Failed")
    /\ UNCHANGED <<dev_url, chrome_tab, response_queues, requests, ping_thread,
                   tab_vars, mon_vars, c_attempts, join_left, snap>>

\* The protocol methods _setup_tab calls on the new tab.  start() does
\* not call _enable_domains.
SetupCalls ==
    {"Runtime.evaluate", "Network.setUserAgentOverride",
     "Page.addScriptToEvaluateOnNewDocument"}

\* _setup_tab: Runtime.evaluate, Network.setUserAgentOverride,
\* Page.addScriptToEvaluateOnNewDocument.  Nothing in start() catches
\* what they raise.
StSetupTab ==
    /\ OnlySession
    /\ pc = "st_setup"
    /\ \/ /\ ~tab_stopped[chrome_tab]
          /\ pc' = "st_monitor"
          /\ call' = [call EXCEPT !.done = SetupCalls]
          /\ UNCHANGED api_phase
       \/ Finish("start", "ChromeException", "Failed")
    /\ UNCHANGED <<remote_vars, tab_vars, mon_vars, c_attempts, join_left, snap>>

\* _init_tab_monitor: the thread is started and the tab's _send wrapped.
StInitMonitor ==
    /\ OnlySession
    /\ pc = "st_monitor"
    /\ ping_thread' = chrome_tab
    /\ m_pc' = [m_pc EXCEPT ![chrome_tab] = "m_while"]
    /\ tab_send' = [tab_send EXCEPT ![chrome_tab] = chrome_tab]
    /\ Finish("start", "started", "Connected")
    /\ UNCHANGED <<chrome_browser, dev_url, chrome_tab, response_queues, requests,
                   tab_status, tab_stopped, tab_ws, tab_listed,
                   tab_detached, m_timer, m_event, m_missing,
                   c_attempts, join_left, snap>>

(***************************************************************************)
(* ChromeRemote.stop()                                                     *)
(***************************************************************************)

\* Mutant: the None test of the first condition is dropped, so with no tab
\* the attribute access raises.
StopTabBranch_NoNoneTest(tab, stopped) ==
    IF tab = 0 THEN "raise" ELSE IF ~stopped THEN "close_tab" ELSE "skip"

\* if self._chrome_tab and not self._chrome_tab._stopped.is_set()
StopTabBranch(tab, stopped) ==
    IF tab # 0 /\ ~stopped THEN "close_tab" ELSE "skip"

StopCall ==
    /\ OnlySession
    /\ pc = "idle"
    /\ snap' = SessionFields
    /\ LET b == StopTabBranch(chrome_tab,
                              IF chrome_tab = 0 THEN FALSE ELSE tab_stopped[chrome_tab])
       IN  /\ pc' = CASE b = "close_tab" -> "sp_tab_stop"
                      [] b = "skip" -> "sp_browser"
                      [] OTHER -> "returned"
           /\ call' = [NoCall EXCEPT !.op = "stop",
                                     !.res = IF b = "raise" THEN "AttributeError"
                                                            ELSE "pending",
                                     !.phase = api_phase, !.tab = chrome_tab]
    /\ UNCHANGED <<remote_vars, tab_vars, mon_vars, api_phase, c_attempts, join_left>>

\* _close_tab: if tab.status == started: tab.stop().  Tab.stop() returns
\* at once when the Event is already set.
StopTabStop ==
    /\ OnlySession
    /\ pc = "sp_tab_stop"
    /\ LET t == chrome_tab IN
       IF tab_status[t] = "started" /\ ~tab_stopped[t]
       THEN /\ tab_status' = [tab_status EXCEPT ![t] = "stopped"]
            /\ tab_stopped' = [tab_stopped EXCEPT ![t] = TRUE]
            /\ tab_ws' = [tab_ws EXCEPT ![t] = FALSE]
       ELSE UNCHANGED <<tab_status, tab_stopped, tab_ws>>
    /\ pc' = "sp_tab_put"
    /\ UNCHANGED <<remote_vars, tab_send, tab_listed, mon_vars, call, api_phase,
                   c_attempts, join_left, snap>>

\* requests.put('%s/json/close/%s' % (self._dev_url, tab.id)): no timeout
\* argument, so the call lasts until the endpoint answers or the connection
\* fails.
ClosePutTimeout == NoneTimeout

\* requests.put(.../json/close/<id>) when a URL is set (a RequestException
\* is swallowed); back in stop(): self._chrome_tab = None
StopTabPut ==
    /\ OnlySession
    /\ pc = "sp_tab_put"
    /\ \/ /\ dev_url # "None"
          /\ tab_listed' = [tab_listed EXCEPT ![chrome_tab] = FALSE]
       \/ UNCHANGED tab_listed
    /\ chrome_tab' = 0
    /\ pc' = "sp_browser"
    /\ UNCHANGED <<chrome_browser, dev_url, response_queues, requests, ping_thread,
                   tab_status, tab_stopped, tab_ws, tab_send, mon_vars,
                   call, api_phase, c_attempts, join_left, snap>>

\* if self._chrome_browser: close() inside try; = None; self._dev_url = None
StopBrowser ==
    /\ OnlySession
    /\ pc = "sp_browser"
    /\ IF chrome_browser # "None"
       THEN chrome_browser' = "None" /\ dev_url' = "None"
       ELSE UNCHANGED <<chrome_browser, dev_url>>
    /\ pc' = "sp_clear"
    /\ UNCHANGED <<chrome_tab, response_queues, requests, ping_thread, tab_vars,
                   mon_vars, call, api_phase, c_attempts, join_left, snap>>

\* self.clear_requests(); self._response_queues = {}
StopClear ==
    /\ OnlyStore
    /\ pc = "sp_clear"
    /\ requests' = {}
    /\ response_queues' = NoQueues
    /\ clear_mark' = Cardinality({n \in DOMAIN ex_url : ex_url[n] # "none"})
    /\ pc' = "sp_join"
    /\ UNCHANGED <<chrome_browser, dev_url, chrome_tab, ping_thread, tab_vars,
                   mon_vars, call, api_phase, c_attempts, join_left, snap,
                   ex_url, t_pc, t_call>>

\* if self._ping_thread and self._ping_thread.is_alive(): join(timeout=2)
StopJoin ==
    /\ OnlySession
    /\ pc = "sp_join"
    /\ IF ping_thread # 0 /\ IsAlive(ping_thread)
       THEN /\ pc' = "sp_joining"
            /\ join_left' = JoinTimeout
            /\ UNCHANGED <<call, api_phase>>
       ELSE /\ Finish("stop", "returned", "Stopped")
            /\ UNCHANGED join_left
    /\ UNCHANGED <<remote_vars, tab_vars, mon_vars, c_attempts, snap>>

\* join returns: the thread has ended, or the two seconds have passed.
StopJoined ==
    /\ OnlySession
    /\ pc = "sp_joining"
    /\ Ended(ping_thread) \/ join_left = 0
    /\ join_left' = 0
    /\ Finish("stop", "returned", "Stopped")
    /\ UNCHANGED <<remote_vars, tab_vars, mon_vars, c_attempts, snap>>

(***************************************************************************)
(* The public operations                                                   *)
(***************************************************************************)

\* The protocol methods an operation calls, in order.
OpCalls(op) ==
    CASE op = "navigate" -> <<"Page.navigate">>
      [] op = "execute_script" -> <<"Runtime.evaluate">>
      [] op = "call_function_on" -> <<"Runtime.callFunctionOn">>
      [] op = "get_document" -> <<"DOM.getDocument">>
      [] op = "perform_click" -> <<"DOM.resolveNode">>
      [] op = "perform_click_by_selector" ->
            <<"DOM.querySelector", "DOM.describeNode", "DOM.resolveNode">>
      [] OTHER -> <<>>

\* What the operation does once its last protocol call has answered.
\* Both click operations go on to self.call_function_on(objectId=...,
\* functionDeclaration=...), whose parameters are named object_id and
\* function_declaration: TypeError, re-raised as ChromeException.
AfterCalls(op, reply, variant) ==
    CASE op \in {"perform_click", "perform_click_by_selector"} -> "Unexpected"
         \* if error_message: raise ChromeException("Navigation failed: ...")
      [] op = "navigate" /\ reply = "errorText" -> "NavigationFailed"
      [] op = "execute_script" /\ reply \in {"value", "both"} -> "value"
         \* the package raises ChromeException("Script execution resulted in
         \* an exception: ..."), the draft logs it and returns None
      [] op = "execute_script" /\ reply = "exception" ->
            IF variant = "package" THEN "ScriptException" ELSE "None"
      [] op = "execute_script" /\ reply \in {"bare", "beside"} -> "None"
         \* if 'root' not in tree: raise ChromeException("Failed to get DOM
         \* root node.")
      [] op = "get_document" /\ reply = "noroot" -> "DomUnavailable"
      [] OTHER -> "ok"

\* The shapes of the last protocol call's answer that the operation tells
\* apart.  Page.navigate: with or without a non-empty errorText.
\* DOM.getDocument: with or without 'root'.
\* Runtime.evaluate: its 'result' holds a value, holds exceptionDetails,
\* holds both, or holds neither; "beside" is the answer of a script that
\* threw as the protocol shapes it, exceptionDetails next to 'result'.
Replies(op) ==
    CASE op = "navigate" -> {"plain", "errorText"}
      [] op = "execute_script" -> {"value", "exception", "both", "bare", "beside"}
      [] op = "get_document" -> {"plain", "noroot"}
      [] OTHER -> {"plain"}

\* Mutant: an error raised inside an operation's try block passes its
\* except clauses untouched.
Surfaced_Unwrapped(op, variant, raw) == raw

\* What the caller of the operation receives for the outcome raw of its
\* body: the except clauses of the operation.  The errors are all
\* ChromeException and differ in the message they begin with:
\* "TabStopped" is "Tab stopped during ...", "CallMethod" is "CDP Call
\* Method error ..." / "Error ...", "Unexpected" is "Unexpected error ...".
Surfaced(op, variant, raw) ==
    LET errors == {"TabStopped", "Transport", "Timeout", "UserAbort",
                   "CallMethodException", "NavigationFailed", "ScriptException",
                   "DomUnavailable"}
    IN  IF raw \notin errors THEN raw
        \* the draft's execute_script logs every error and returns None
        ELSE IF op = "execute_script" /\ variant = "draft" THEN "None"
        \* except pychrome.RuntimeException, in navigate alone
        ELSE IF op = "navigate" /\ raw = "TabStopped" THEN "TabStopped"
        \* except pychrome.CallMethodException
        ELSE IF raw = "CallMethodException" THEN "CallMethod"
        \* except Exception: the operation's own ChromeException included
        ELSE "Unexpected"

\* With self._chrome_tab None.
WithoutTab(op) ==
    CASE op = "wait_for_selector" -> "False"
      [] op = "wait_response" -> "None"
         \* no guard: AttributeError, re-raised as ChromeException
      [] op = "perform_click_by_selector" -> "Unexpected"
         \* raise ChromeException("Chrome tab is not initialized.")
      [] OTHER -> "NotStarted"

\* The monitor has seen tab t missing and has set both flags.
Flagged(t) == t # 0 /\ m_missing[t] /\ tab_detached[t] /\ tab_stopped[t]
Missing(t) == t # 0 /\ m_missing[t]

\* Mutant: wrapped_send re-raises whatever original_send raised.
WrappedSendError_Transparent(detached, err) == err

\* wrapped_send's except clauses.
WrappedSendError(detached, err) == IF detached THEN "TabStopped" ELSE err

\* What an error of Tab._send becomes for the caller of tab t.
\* The tab_detached that the _send of tab t reads: the variable of the
\* closure that wrapped it.
Detached(t) == tab_send[t] # 0 /\ tab_detached[tab_send[t]]

SendError(t, err) ==
    IF tab_send[t] = 0 THEN err ELSE WrappedSendError(tab_detached[tab_send[t]], err)

\* Tab.call_method on tab t for the i-th method of the operation:
\* RuntimeException('Tab has been stopped') when the Event is set, else
\* self._send(...).
BeginCall(c, i) ==
    LET t == c.tab
        d == [c EXCEPT !.i = i, !.flagged = Flagged(t), !.missing = Missing(t)]
    IN  IF tab_stopped[t]
        THEN /\ pc' = "returned"
             /\ call' = [d EXCEPT !.res = "TabStopped", !.endflagged = Flagged(t)]
        ELSE IF ~tab_ws[t]
        THEN \* no websocket: the send raises before anything is sent
             /\ pc' = "returned"
             /\ call' = [d EXCEPT !.res = SendError(t, "Transport"),
                                  !.raised = "Transport",
                                  !.det = Detached(t),
                                  !.endflagged = Flagged(t)]
        ELSE /\ pc' = "in_call"
             /\ call' = [d EXCEPT !.res = "pending", !.issued = c.issued + 1]

\* An operation is called.
OpCall(op) ==
    /\ OnlySession
    /\ pc = "idle"
    /\ s_pc = "idle"
    /\ LET c == [NoCall EXCEPT !.op = op, !.phase = api_phase, !.tab = chrome_tab] IN
       IF op = "wait_for_selector"
       THEN \* without a tab False; with one, self._chrome_remote does not
            \* exist, the AttributeError is passed over until the timeout
            /\ pc' = "returned"
            /\ call' = [c EXCEPT !.res = "False"]
            /\ UNCHANGED response_queues
       ELSE IF op = "wait_response"
       THEN /\ pc' = "returned"
            /\ \E p \in AskedPatterns :
                 IF /\ chrome_tab # 0
                    /\ ~tab_stopped[chrome_tab]
                    /\ CanTake(p)
                 THEN /\ call' = [c EXCEPT !.res = "exchange", !.pat = p,
                                           !.got = QueueGet(response_queues[p]),
                                           !.mark = clear_mark]
                      /\ response_queues' =
                            [response_queues EXCEPT ![p] = Tail(response_queues[p])]
                 ELSE \* no tab, the Event set, KeyError or queue.Empty
                      /\ call' = [c EXCEPT !.res = "None", !.pat = p,
                                           !.mark = clear_mark]
                      /\ UNCHANGED response_queues
       ELSE IF chrome_tab = 0
       THEN /\ pc' = "returned"
            /\ call' = [c EXCEPT !.res = WithoutTab(op)]
            /\ UNCHANGED response_queues
       ELSE /\ BeginCall(c, 1)
            /\ UNCHANGED response_queues
    /\ UNCHANGED <<chrome_browser, dev_url, chrome_tab, requests, ping_thread,
                   tab_vars, mon_vars, api_phase, c_attempts, join_left, snap>>

\* The method in flight is answered with a result.
CallReply ==
    /\ OnlySession
    /\ pc = "in_call"
    /\ IF call.i < Len(OpCalls(call.op))
       THEN \/ BeginCall(call, call.i + 1)
            \/ \* describeNode's answer holds no execution context
               /\ call.op = "perform_click_by_selector"
               /\ call.i = 2
               /\ pc' = "returned"
               /\ call' = [call EXCEPT !.res = "NoContext",
                                       !.endflagged = Flagged(call.tab)]
       ELSE /\ pc' = "returned"
            /\ \E r \in Replies(call.op) :
                 call' = [call EXCEPT !.res = AfterCalls(call.op, r, s_variant),
                                      !.reply = r,
                                      !.endflagged = Flagged(call.tab)]
    /\ UNCHANGED <<remote_vars, tab_vars, mon_vars, api_phase, c_attempts,
                   join_left, snap>>

\* The method in flight is answered with an error: call_method raises
\* CallMethodException after the send has returned.
CallReplyError ==
    /\ OnlySession
    /\ pc = "in_call"
    /\ pc' = "returned"
    /\ call' = [call EXCEPT !.res = "CallMethodException",
                            !.endflagged = Flagged(call.tab)]
    /\ UNCHANGED <<remote_vars, tab_vars, mon_vars, api_phase, c_attempts,
                   join_left, snap>>

\* The send itself raises: a transport error, a timeout, or
\* UserAbortException once the tab's Event is set.
CallSendError ==
    /\ OnlySession
    /\ pc = "in_call"
    /\ \E err \in {"Transport", "Timeout", "UserAbort"} :
         /\ err = "UserAbort" => tab_stopped[call.tab]
         /\ call' = [call EXCEPT !.res = SendError(call.tab, err),
                                 !.raised = err,
                                 !.det = Detached(call.tab),
                                 !.endflagged = Flagged(call.tab)]
    /\ pc' = "returned"
    /\ UNCHANGED <<remote_vars, tab_vars, mon_vars, api_phase, c_attempts,
                   join_left, snap>>

\* The API call returns to the caller: its outcome is handed over.
Return ==
    /\ OnlySession
    /\ pc = "returned"
    /\ pc' = "idle"
    /\ call' = NoCall
    /\ snap' = NoSnap
    /\ UNCHANGED <<remote_vars, tab_vars, mon_vars, api_phase, c_attempts, join_left>>

\* The same, with the outcome remembered until the next operation returns.
ReturnNoting ==
    /\ UNCHANGED <<wvars, bvars, store_vars, sel_vars, ledger_vars, app_vars>>
    /\ pc = "returned"
    /\ pc' = "idle"
    /\ call' = NoCall
    /\ snap' = NoSnap
    /\ prev_res' = call.res
    /\ UNCHANGED <<remote_vars, tab_vars, mon_vars, api_phase, c_attempts, join_left>>

RemoteNext ==
    \/ Return
    \/ StartCall \/ StConnectTab \/ StConnectNoTab \/ StConnectRetry
    \/ StCloseBrowser \/ StSetupTab \/ StInitMonitor
    \/ StopCall \/ StopTabStop \/ StopTabPut \/ StopBrowser \/ StopClear
    \/ StopJoin \/ StopJoined
    \/ \E op \in Operations : OpCall(op)
    \/ CallReply \/ CallReplyError \/ CallSendError
    \/ \E t \in Tabs :
         \/ MWhile(t) \/ MTry(t) \/ MPollListing(t) \/ MPollError(t)
         \/ MSetDetached(t) \/ MSetStopped(t)
         \/ MHandlerDetached(t) \/ MHandlerStopped(t)
         \/ MWaitEnter(t) \/ MWaitReturn(t)
         \/ TabLost(t)
    \/ Tick

(***************************************************************************)
(* The response store: self._requests (the flat log, keyed by request id)  *)
(* and self._response_queues, used by the caller's thread and by a second  *)
(* thread.                                                                 *)
(***************************************************************************)

NoTake == [pat |-> "none", res |-> "none", got |-> 0, mark |-> 0, slept |-> FALSE]

StoreIdle ==
    /\ ex_url = [n \in Exchanges |-> "none"]
    /\ clear_mark = 0
    /\ t_pc = "idle"
    /\ t_call = NoTake

\* The exchanges recorded so far are 1..Recorded.
Recorded == Cardinality({n \in Exchanges : ex_url[n] # "none"})

\* with self._requests_lock: held by clear_requests() from its first
\* statement to its last.
LockHeld == pc \in {"cl_log", "cl_drain"}

\* A step of the second thread.
WorkerFrame ==
    /\ OnlyStore
    /\ pc # "returned"
    /\ UNCHANGED <<chrome_browser, dev_url, chrome_tab, ping_thread, tab_vars,
                   mon_vars, caller_vars, clear_mark>>

\* record(exchange): under the lock, the exchange is added to the flat log
\* and pushed onto the queue of every pattern its URL matches.  Exchanges
\* come from the events of a tab that has not been stopped.
Record(u) ==
    /\ WorkerFrame
    /\ t_pc = "idle"
    /\ ~LockHeld
    /\ chrome_tab # 0
    /\ ~tab_stopped[chrome_tab]
    /\ Recorded < MaxExchanges
    /\ LET n == Recorded + 1 IN
       /\ ex_url' = [ex_url EXCEPT ![n] = u]
       /\ requests' = requests \cup {n}
       /\ response_queues' =
            [p \in DOMAIN response_queues |->
                IF Matches(p, u) THEN Append(response_queues[p], n)
                                 ELSE response_queues[p]]
    /\ UNCHANGED <<t_pc, t_call>>

\* wait_response(p) on the second thread, line 195:
\* if self._chrome_tab is None: return None
WTakeCall(p) ==
    /\ WorkerFrame
    /\ t_pc = "idle"
    /\ IF chrome_tab = 0
       THEN /\ t_pc' = "t_returned"
            /\ t_call' = [NoTake EXCEPT !.pat = p, !.res = "None", !.mark = clear_mark]
       ELSE /\ t_pc' = "t_guarded"
            /\ t_call' = [NoTake EXCEPT !.pat = p, !.res = "pending", !.mark = clear_mark]
    /\ UNCHANGED <<ex_url, requests, response_queues>>

\* Lines 198-206: self._chrome_tab._stopped.is_set() reads the field again
\* (AttributeError when stop() has cleared it meanwhile: the wrapper's
\* except clause), then the queue's get(block=False).
WTakeAttempt ==
    /\ WorkerFrame
    /\ t_pc = "t_guarded"
    /\ IF chrome_tab = 0
       THEN LET n == OnAttemptError("t_guarded", NoResult) IN
            /\ t_pc' = IF n.at = "sleep" THEN "t_sleep" ELSE "t_returned"
            /\ t_call' = [t_call EXCEPT !.res = IF n.at = "sleep" THEN "pending"
                                                                  ELSE "AttributeError",
                                        !.slept = (n.at = "sleep")]
            /\ UNCHANGED response_queues
       ELSE IF ~tab_stopped[chrome_tab] /\ CanTake(t_call.pat)
       THEN /\ t_pc' = "t_returned"
            /\ t_call' = [t_call EXCEPT !.res = "exchange",
                                        !.got = QueueGet(response_queues[t_call.pat])]
            /\ response_queues' =
                 [response_queues EXCEPT ![t_call.pat] = Tail(response_queues[t_call.pat])]
       ELSE /\ t_pc' = "t_returned"
            /\ t_call' = [t_call EXCEPT !.res = "None"]
            /\ UNCHANGED response_queues
    /\ UNCHANGED <<ex_url, requests>>

\* time.sleep(0.5) is over.  While the 30 s are not, the function is
\* invoked again, line 195; once they are, the wrapper leaves its loop
\* (throw_exception=False).
WTakeRetry ==
    /\ WorkerFrame
    /\ t_pc = "t_sleep"
    /\ \E open \in BOOLEAN :
         IF ~open
         THEN LET e == OnElapse(FALSE) IN
              /\ t_pc' = "t_returned"
              /\ t_call' = [t_call EXCEPT !.res = IF e.kind = "return" THEN e.val
                                                                        ELSE e.exc]
         ELSE IF chrome_tab = 0
         THEN /\ t_pc' = "t_returned"
              /\ t_call' = [t_call EXCEPT !.res = "None"]
         ELSE /\ t_pc' = "t_guarded"
              /\ UNCHANGED t_call
    /\ UNCHANGED <<ex_url, requests, response_queues>>

\* The second thread's call hands its outcome over.
WTakeDone ==
    /\ WorkerFrame
    /\ t_pc = "t_returned"
    /\ t_pc' = "idle"
    /\ t_call' = NoTake
    /\ UNCHANGED <<ex_url, requests, response_queues>>

\* A store operation of the caller's thread returns.
StoreReturn(op, res, seen) ==
    /\ pc' = "returned"
    /\ call' = [NoCall EXCEPT !.op = op, !.res = res, !.phase = api_phase,
                              !.tab = chrome_tab, !.seen = seen, !.mark = clear_mark]

\* clear_requests(): with self._requests_lock
ClearCall ==
    /\ OnlyStore
    /\ pc = "idle"
    /\ pc' = "cl_log"
    /\ call' = [NoCall EXCEPT !.op = "clear_requests", !.res = "pending",
                              !.phase = api_phase, !.tab = chrome_tab,
                              !.mark = Recorded]
    /\ UNCHANGED <<remote_vars, tab_vars, mon_vars, api_phase, c_attempts,
                   join_left, snap, store_vars>>

\* self._requests.clear()
ClearLog ==
    /\ OnlyStore
    /\ pc = "cl_log"
    /\ requests' = {}
    /\ pc' = "cl_drain"
    /\ UNCHANGED <<chrome_browser, dev_url, chrome_tab, response_queues, ping_thread,
                   tab_vars, mon_vars, call, api_phase, c_attempts, join_left, snap,
                   store_vars>>

\* Mutant: the queues are left as they are.
NeedsDrain_Never(q) == FALSE

\* while not q.empty()
NeedsDrain(q) == q # <<>>

\* for q in self._response_queues.values(): while not q.empty():
\* q.get_nowait() -- one entry of the first queue that still needs it; with
\* none left the lock is released and the call returns.
ClearDrain ==
    /\ OnlyStore
    /\ pc = "cl_drain"
    /\ LET todo == {p \in DOMAIN response_queues : NeedsDrain(response_queues[p])} IN
       IF todo # {}
       THEN LET p == IF "p1" \in todo THEN "p1" ELSE CHOOSE x \in todo : TRUE IN
            /\ response_queues' =
                 [response_queues EXCEPT ![p] = Tail(response_queues[p])]
            /\ UNCHANGED <<pc, call, clear_mark>>
       ELSE /\ pc' = "returned"
            /\ call' = [call EXCEPT !.res = "returned"]
            /\ clear_mark' = call.mark
            /\ UNCHANGED response_queues
    /\ UNCHANGED <<chrome_browser, dev_url, chrome_tab, requests, ping_thread,
                   tab_vars, mon_vars, api_phase, c_attempts, join_left, snap,
                   ex_url, t_pc, t_call>>

\* Mutant: only the exchanges some pattern's queue was given are listed.
LogView_Matched(log) == {n \in log : \E p \in Patterns : Matches(p, ex_url[n])}

\* list(self._requests.values()): every entry of the flat log
LogView(log) == log

\* get_requests(): list(self._requests.values()) under the lock
GetRequests ==
    /\ OnlyStore
    /\ pc = "idle"
    /\ StoreReturn("get_requests", "ok", LogView(requests))
    /\ UNCHANGED <<remote_vars, tab_vars, mon_vars, api_phase, c_attempts,
                   join_left, snap, store_vars>>

\* @wait_until_finished(timeout=None, throw_exception=False)
GetResponsesTimeout == NoneTimeout

\* get_responses(): @wait_until_finished(timeout=None), whose loop
\* condition compares a float with None before the function is invoked.
GetResponses ==
    /\ OnlyStore
    /\ pc = "idle"
    /\ IF GetResponsesTimeout = NoneTimeout
       THEN StoreReturn("get_responses", "TypeError", {})
       ELSE StoreReturn("get_responses", "ok", requests)
    /\ UNCHANGED <<remote_vars, tab_vars, mon_vars, api_phase, c_attempts,
                   join_left, snap, store_vars>>

\* The session right after its first start() has returned: tab 1 attached,
\* its monitor thread started, nothing recorded yet.
ConnectedSession ==
    /\ chrome_browser = "ChromeBrowser"
    /\ dev_url = "url"
    /\ chrome_tab = 1
    /\ response_queues = [x \in Patterns |-> <<>>]
    /\ requests = {}
    /\ ping_thread = 1
    /\ tab_status = [t \in Tabs |-> IF t = 1 THEN "started" ELSE "none"]
    /\ tab_stopped = [t \in Tabs |-> FALSE]
    /\ tab_ws = [t \in Tabs |-> t = 1]
    /\ tab_send = [t \in Tabs |-> IF t = 1 THEN 1 ELSE 0]
    /\ tab_listed = [t \in Tabs |-> t = 1]
    /\ tab_detached = [t \in Tabs |-> FALSE]
    /\ m_pc = [t \in Tabs |-> IF t = 1 THEN "m_while" ELSE "none"]
    /\ m_timer = [t \in Tabs |-> 0]
    /\ m_event = [t \in Tabs |-> 0]
    /\ m_missing = [t \in Tabs |-> FALSE]
    /\ pc = "idle"
    /\ call = NoCall
    /\ api_phase = "Connected"
    /\ c_attempts = 0
    /\ join_left = 0
    /\ snap = NoSnap

\* The store used by two threads while the session stays as it is.
StoreNext ==
    \/ Return
    \/ OpCall("wait_response")
    \/ ClearCall \/ ClearLog \/ ClearDrain
    \/ GetRequests \/ GetResponses
    \/ \E u \in Urls : Record(u)
    \/ \E p \in AskedPatterns : WTakeCall(p)
    \/ WTakeAttempt \/ WTakeDone

\* wait_response() on both threads while the caller's thread may stop the
\* session and the monitor runs.
TakeNext ==
    \/ Return
    \/ OpCall("wait_response")
    \/ StopCall \/ StopTabStop \/ StopTabPut \/ StopBrowser \/ StopClear
    \/ StopJoin \/ StopJoined
    \/ \E t \in Tabs :
         \/ MWhile(t) \/ MTry(t) \/ MPollListing(t) \/ MPollError(t)
         \/ MSetDetached(t) \/ MSetStopped(t)
         \/ MHandlerDetached(t) \/ MHandlerStopped(t)
         \/ MWaitEnter(t) \/ MWaitReturn(t)
         \/ TabLost(t)
    \/ Tick
    \/ \E p \in AskedPatterns : WTakeCall(p)
    \/ WTakeAttempt \/ WTakeRetry \/ WTakeDone

(***************************************************************************)
(* wait_for_selector, as written in parser_2gis/chrome/remote.py           *)
(* ("package") and in chrome/remote.py ("draft")                           *)
(***************************************************************************)

\* Largest timeout argument tried, in ticks.
MaxSelectorTimeout == 4
\* Longest pass through the loop body, in ticks.
MaxPollTicks == 1
\* time.sleep(0.5) between two polls
SelectorSleep == 1
Variants == {"package", "draft"}

SelectorIdle ==
    /\ s_pc = "idle" /\ s_timeout = 0 /\ s_elapsed = 0 /\ s_polls = 0
    /\ s_issued = 0 /\ s_present = FALSE /\ s_res = "none"

\* if not self._chrome_tab: return False; start_time = time.time()
SelCall ==
    /\ OnlySelector
    /\ s_pc = "idle"
    /\ pc = "idle"
    /\ \E timeout \in 0..MaxSelectorTimeout : s_timeout' = timeout
    /\ s_elapsed' = 0
    /\ s_polls' = 0
    /\ s_issued' = 0
    /\ s_present' \in BOOLEAN
    /\ IF chrome_tab = 0
       THEN s_pc' = "returned" /\ s_res' = "False"
       ELSE s_pc' = "check" /\ s_res' = "pending"
    /\ UNCHANGED s_variant

\* while time.time() - start_time < timeout; after the loop: return False
SelCheck ==
    /\ OnlySelector
    /\ s_pc = "check"
    /\ IF DeadlineOpen(s_elapsed, s_timeout)
       THEN s_pc' = "poll" /\ UNCHANGED s_res
       ELSE s_pc' = "returned" /\ s_res' = "False"
    /\ UNCHANGED <<s_variant, s_timeout, s_elapsed, s_polls, s_issued, s_present>>

\* Protocol calls made by a poll before it reaches self._chrome_remote:
\* the draft calls get_document() first.
PollCalls(variant) == IF variant = "draft" THEN 1 ELSE 0

\* Mutant: the handler of the package is the draft's.
OnPollError_Return(variant) == "return_false"

\* self._chrome_remote is no attribute of ChromeRemote: AttributeError.
\* The package passes over it (except Exception: pass); the draft's
\* handler, and its handler of an error of get_document(), return False.
OnPollError(variant) == IF variant = "package" THEN "pass" ELSE "return_false"

\* One pass through the loop body, d ticks long.
SelPoll ==
    /\ OnlySelector
    /\ s_pc = "poll"
    /\ s_polls' = s_polls + 1
    /\ s_issued' = s_issued + PollCalls(s_variant)
    /\ \E d \in 0..MaxPollTicks : s_elapsed' = s_elapsed + d
    /\ IF OnPollError(s_variant) = "pass"
       THEN s_pc' = "sleep" /\ UNCHANGED s_res
       ELSE s_pc' = "returned" /\ s_res' = "False"
    /\ UNCHANGED <<s_variant, s_timeout, s_present>>

\* time.sleep(0.5)
SelSleep ==
    /\ OnlySelector
    /\ s_pc = "sleep"
    /\ s_elapsed' = s_elapsed + SelectorSleep
    /\ s_pc' = "check"
    /\ UNCHANGED <<s_variant, s_timeout, s_polls, s_issued, s_present, s_res>>

\* The call hands its outcome over.
SelDone ==
    /\ OnlySelector
    /\ s_pc = "returned"
    /\ s_pc' = "idle"
    /\ s_timeout' = 0
    /\ s_elapsed' = 0
    /\ s_polls' = 0
    /\ s_issued' = 0
    /\ s_present' = FALSE
    /\ s_res' = "none"
    /\ UNCHANGED s_variant

SelectorNext == SelCall \/ SelCheck \/ SelPoll \/ SelSleep \/ SelDone

(***************************************************************************)
(* CLIRunner.start: the loop over the target URLs (runner/cli.py)          *)
(***************************************************************************)

\* Longest target list tried.
MaxUrls == 4

\* How parsing one URL ends: parser.parse returns, or an operation of the
\* session fails with one of the error kinds.
ParseFailures == {"Detached", "NavigationFailed", "ScriptException", "DomUnavailable"}
ParseOutcomes == {"ok"} \cup ParseFailures

RunnerIdle ==
    /\ r_pc = "idle" /\ r_urls = 0 /\ r_writer = FALSE /\ r_i = 0
    /\ r_out = [k \in 1..MaxUrls |-> "none"]
    /\ r_err = "none"

\* The module imports neither pychrome nor TYPE_CHECKING; the name
\* pychrome is unbound where the handlers of the loop are evaluated.
PychromeBound == FALSE

\* ... except ...: logger.error(...); continue
OnHandled == "continue"

\* The handlers of the loop's try, tried in order for an exception of
\* parse: `except pychrome.RuntimeException` is evaluated first, and
\* evaluating it raises NameError while pychrome is unbound; bound, one of
\* the three clauses (pychrome.RuntimeException, ChromeException, Exception)
\* takes every failure and continues.
InnerHandler(failure) == IF PychromeBound THEN OnHandled ELSE "NameError"

\* start(): the target list is not empty; the writer is built when an
\* output path and a format are given.  Both branches run the same loop.
RunnerStart ==
    /\ OnlyRunner
    /\ r_pc = "idle"
    /\ r_urls = 0
    /\ \E n \in 1..MaxUrls : r_urls' = n
    /\ r_writer' \in BOOLEAN
    /\ r_i' = 1
    /\ r_pc' = "parse"
    /\ UNCHANGED <<r_out, r_err>>

\* The loop moves on to the URL after r_i, or ends after the last one.
NextUrl ==
    IF r_i < r_urls THEN r_pc' = "parse" /\ r_i' = r_i + 1
                    ELSE r_pc' = "finished" /\ UNCHANGED r_i

\* with get_parser(url, ...) as parser: parser.parse(writer)
RunnerParse ==
    /\ OnlyRunner
    /\ r_pc = "parse"
    /\ \E o \in ParseOutcomes :
         /\ r_out' = [r_out EXCEPT ![r_i] = o]
         /\ IF o = "ok" THEN NextUrl ELSE r_pc' = "handle" /\ UNCHANGED r_i
    /\ UNCHANGED <<r_urls, r_writer, r_err>>

\* The except clauses and the finally of the loop's try; an exception that
\* leaves the loop is logged by the outer `except Exception`.
RunnerHandle ==
    /\ OnlyRunner
    /\ r_pc = "handle"
    /\ IF InnerHandler(r_out[r_i]) = "continue"
       THEN NextUrl /\ UNCHANGED r_err
       ELSE /\ r_pc' = "finished"
            /\ r_err' = InnerHandler(r_out[r_i])
            /\ UNCHANGED r_i
    /\ UNCHANGED <<r_urls, r_writer, r_out>>

RunnerNext == RunnerStart \/ RunnerParse \/ RunnerHandle

(***************************************************************************)
(* CompanyFinder.find_company_cards (finder/company_finder.py)             *)
(***************************************************************************)

\* Sessions one finder constructs over its life.
MaxSessions == 3
Sessions == 1..MaxSessions

\* The operations _find_urls calls on the session, in order.
FindOps ==
    <<"navigate", "execute_script", "execute_script", "wait_for_selector",
      "execute_script", "wait_for_selector", "get_document">>

\* How ChromeRemote.start() ends for its caller.
StartOutcomes == {"started", "returned_unconnected", "ChromeException", "TimeoutError"}
StartRaises(o) == o \in {"ChromeException", "TimeoutError"}

FinderIdle ==
    /\ f_pc = "idle" /\ f_remote = 0 /\ f_made = 0
    /\ f_stops = [x \in Sessions |-> 0]
    /\ f_step = 0
    /\ f_res = "none"

AppIdle == RunnerIdle /\ FinderIdle

\* find_company_cards: if not company_name: return []
FindCall ==
    /\ OnlyFinder
    /\ f_pc = "idle"
    /\ f_made < MaxSessions
    /\ f_step' = 0
    /\ \E named \in BOOLEAN :
         IF named THEN f_pc' = "init" /\ f_res' = "pending"
                  ELSE f_pc' = "returned" /\ f_res' = "empty"
    /\ UNCHANGED <<f_remote, f_made, f_stops>>

\* _find_urls: if self._chrome_remote is None: self._init_chrome_remote(),
\* which assigns the new ChromeRemote to the field and then calls start()
\* on it; what start() raises leaves _find_urls, outside its try.
FindInit ==
    /\ OnlyFinder
    /\ f_pc = "init"
    /\ IF f_remote = 0
       THEN /\ f_made' = f_made + 1
            /\ f_remote' = f_made + 1
            /\ \E o \in StartOutcomes :
                 IF StartRaises(o) THEN f_pc' = "finally" /\ f_res' = o
                                   ELSE f_pc' = "ops" /\ UNCHANGED f_res
       ELSE /\ f_pc' = "ops"
            /\ UNCHANGED <<f_made, f_remote, f_res>>
    /\ UNCHANGED <<f_stops, f_step>>

\* One operation of the try in _find_urls: it returns and the search goes
\* on, or the function returns a list (the last operation, or an early
\* return []), or the operation raises and a handler returns [].
FindOp ==
    /\ OnlyFinder
    /\ f_pc = "ops"
    /\ f_step' = f_step + 1
    /\ \/ /\ f_step + 1 < Len(FindOps)
          /\ UNCHANGED <<f_pc, f_res>>
       \/ /\ f_pc' = "finally"
          /\ f_res' = IF f_step + 1 = Len(FindOps) THEN "urls" ELSE "empty"
       \/ /\ f_pc' = "finally"
          /\ f_res' = "empty"
    /\ UNCHANGED <<f_remote, f_made, f_stops>>

\* Mutant: the session is stopped only when the search gave a result.
StopInFinally_OnSuccess(remote, res) == remote # 0 /\ res = "urls"

\* finally: if self._chrome_remote: stop() and the field set to None
StopInFinally(remote, res) == remote # 0

\* The finally clause of find_company_cards; then the call returns or the
\* exception goes on to the caller.
FindFinally ==
    /\ OnlyFinder
    /\ f_pc = "finally"
    /\ IF StopInFinally(f_remote, f_res)
       THEN /\ f_stops' = [f_stops EXCEPT ![f_remote] = @ + 1]
            /\ f_remote' = 0
       ELSE UNCHANGED <<f_stops, f_remote>>
    /\ f_pc' = "returned"
    /\ UNCHANGED <<f_made, f_step, f_res>>

\* The caller has the result.
FindReturn ==
    /\ OnlyFinder
    /\ f_pc = "returned"
    /\ f_pc' = "idle"
    /\ UNCHANGED <<f_remote, f_made, f_stops, f_step, f_res>>

FinderNext == FindCall \/ FindInit \/ FindOp \/ FindFinally \/ FindReturn

(***************************************************************************)
(* TaskQueue: the task ledger of the backend                               *)
(***************************************************************************)

\* Report identifiers handed out.
MaxReports == 2
ReportIds == 1..MaxReports

NoTask == [status |-> "absent", report |-> FALSE, error_message |-> FALSE]

LedgerIdle ==
    /\ tq_tasks = [id \in ReportIds |-> NoTask]
    /\ tq_queue = <<>>
    /\ tq_valid = [id \in ReportIds |-> TRUE]
    /\ tq_pc = "off"
    /\ tq_cur = 0
    /\ tq_seen = "none"

\* add_task(request, report_id): await self._queue.put(...), which does
\* not suspend on an unbounded queue, then the entry with status "pending".
\* The endpoint passes a new uuid4 each time; other callers any string.
AddTask(id, valid) ==
    /\ OnlyLedger
    /\ tq_tasks[id].status = "absent"
    /\ tq_queue' = Append(tq_queue, id)
    /\ tq_valid' = [tq_valid EXCEPT ![id] = valid]
    /\ tq_tasks' = [tq_tasks EXCEPT ![id] = [NoTask EXCEPT !.status = "pending"]]
    /\ UNCHANGED <<tq_pc, tq_cur, tq_seen>>

\* run_worker(): asyncio.create_task(self.process_tasks())
RunWorker ==
    /\ OnlyLedger
    /\ tq_pc = "off"
    /\ tq_pc' = "waiting"
    /\ UNCHANGED <<tq_tasks, tq_queue, tq_valid, tq_cur, tq_seen>>

\* __init__ raises when ParserService cannot be built, so the attribute is
\* there and truthy whenever process_tasks runs.
ParserServiceAvailable == TRUE

\* Mutant: the entry put last is the one handed out.
AsyncQueueGet_Newest(q) == q[Len(q)]

\* asyncio.Queue.get(): the entry put first
AsyncQueueGet(q) == Head(q)

\* report_id, request = await self._queue.get(); the status becomes
\* "processing" (or "error" without a parser service); await
\* asyncio.sleep(10).
WorkerGet ==
    /\ OnlyLedger
    /\ tq_pc = "waiting"
    /\ tq_queue # <<>>
    /\ LET id == AsyncQueueGet(tq_queue) IN
       /\ tq_queue' = Tail(tq_queue)
       /\ IF ParserServiceAvailable
          THEN /\ tq_tasks' = [tq_tasks EXCEPT ![id].status = "processing"]
               /\ tq_pc' = "sleeping"
               /\ tq_cur' = id
          ELSE /\ tq_tasks' = [tq_tasks EXCEPT ![id].status = "error",
                                               ![id].error_message = TRUE]
               /\ UNCHANGED <<tq_pc, tq_cur>>
    /\ UNCHANGED <<tq_valid, tq_seen>>

\* except asyncio.CancelledError: self._tasks[report_id]["status"] = ...
OnCancelled == "cancelled"

\* The sleep is over: report = Report(**dummy_report_data_raw), which raises
\* ValidationError for a report_id that is no UUID; the entry gets the
\* report and "completed", or "error" and a message; next pass.
WorkerFinish ==
    /\ OnlyLedger
    /\ tq_pc = "sleeping"
    /\ tq_tasks' =
         IF tq_valid[tq_cur]
         THEN [tq_tasks EXCEPT ![tq_cur].status = "completed", ![tq_cur].report = TRUE]
         ELSE [tq_tasks EXCEPT ![tq_cur].status = "error",
                               ![tq_cur].error_message = TRUE]
    /\ tq_pc' = "waiting"
    /\ tq_cur' = 0
    /\ UNCHANGED <<tq_queue, tq_valid, tq_seen>>

\* The task running process_tasks() is cancelled at one of its awaits:
\* CancelledError, the entry of the pass in hand is marked, break.
WorkerCancel ==
    /\ OnlyLedger
    /\ tq_pc \in {"waiting", "sleeping"}
    /\ tq_tasks' =
         IF tq_cur # 0
         THEN [tq_tasks EXCEPT ![tq_cur].status = OnCancelled,
                               ![tq_cur].error_message = TRUE]
         ELSE tq_tasks
    /\ tq_pc' = "ended"
    /\ tq_cur' = 0
    /\ UNCHANGED <<tq_queue, tq_valid, tq_seen>>

\* get_task_info(report_id): self._tasks.get(report_id)
GetTaskInfo(id) ==
    /\ OnlyLedger
    /\ tq_seen' = IF tq_tasks[id].status = "absent" THEN "None" ELSE tq_tasks[id].status
    /\ UNCHANGED <<tq_tasks, tq_queue, tq_valid, tq_pc, tq_cur>>

LedgerNext ==
    \/ \E id \in ReportIds, valid \in BOOLEAN : AddTask(id, valid)
    \/ RunWorker \/ WorkerGet \/ WorkerFinish \/ WorkerCancel
    \/ \E id \in ReportIds : GetTaskInfo(id)

(***************************************************************************)
(* The session as a context manager: __enter__ and __exit__                *)
(***************************************************************************)

\* Outcomes of an operation that are exceptions.
RaisedOutcomes ==
    {"TabStopped", "Transport", "Timeout", "UserAbort", "CallMethodException",
     "NavigationFailed", "ScriptException", "DomUnavailable", "Unexpected",
     "NotStarted", "NoContext"}

\* The operations called inside the block.
BlockOperations == {"navigate", "execute_script", "get_document", "wait_response"}

\* __enter__: self.start(); return self.  An exception of start() leaves
\* the with statement before its block, and __exit__ is not called.
Enter ==
    /\ api_phase = "Unstarted"
    /\ StartCall

\* An operation called inside the block, start() among them.
BlockCall ==
    /\ api_phase = "Connected"
    /\ \/ \E op \in BlockOperations : OpCall(op)
       \/ StartCall

\* Mutant: __exit__ stops the session only when the block ended normally.
ExitCalls_OnlyClean(exc) == IF exc THEN "none" ELSE "stop"

\* __exit__(exc_type, exc_val, exc_tb): self.stop(), whatever the arguments.
ExitCalls(exc) == "stop"

\* The block is left, normally or by the exception of its last operation:
\* __exit__ is called, and returns None, so the exception goes on.
Exit ==
    /\ api_phase = "Connected"
    /\ pc = "idle"
    /\ IF ExitCalls(prev_res \in RaisedOutcomes) = "stop"
       THEN StopCall
       ELSE /\ OnlySession
            /\ pc' = "returned"
            /\ call' = [NoCall EXCEPT !.op = "exit", !.res = "returned",
                                      !.phase = api_phase, !.tab = chrome_tab]
            /\ api_phase' = "Left"
            /\ UNCHANGED <<remote_vars, tab_vars, mon_vars, c_attempts, join_left, snap>>

WithNext ==
    \/ ReturnNoting
    \/ Enter \/ StConnectTab \/ StConnectNoTab \/ StConnectRetry
    \/ StCloseBrowser \/ StSetupTab \/ StInitMonitor
    \/ BlockCall \/ CallReply \/ CallReplyError \/ CallSendError
    \/ Exit \/ StopTabStop \/ StopTabPut \/ StopBrowser \/ StopClear
    \/ StopJoin \/ StopJoined
    \/ \E t \in Tabs :
         \/ MWhile(t) \/ MTry(t) \/ MPollListing(t) \/ MPollError(t)
         \/ MSetDetached(t) \/ MSetStopped(t)
         \/ MHandlerDetached(t) \/ MHandlerStopped(t)
         \/ MWaitEnter(t) \/ MWaitReturn(t)
         \/ TabLost(t)
    \/ Tick

(***************************************************************************)
(* Specifications                                                          *)
(***************************************************************************)

NoSelector == SelectorIdle /\ s_variant = "package"
NoHistory == prev_res = "none"

SpecWaitInit == WaitInit /\ BrowserIdle /\ RemoteIdle /\ StoreIdle /\ NoSelector /\ NoHistory /\ LedgerIdle /\ AppIdle
SpecWaitNext == WaitNext
SpecWait == SpecWaitInit /\ [][SpecWaitNext]_vars

SpecBrowserInit == BrowserInit /\ WaitIdle /\ RemoteIdle /\ StoreIdle /\ NoSelector /\ NoHistory /\ LedgerIdle /\ AppIdle
SpecBrowserNext == BrowserNext
SpecBrowser == SpecBrowserInit /\ [][SpecBrowserNext]_vars

Init == RemoteInit /\ WaitIdle /\ BrowserIdle /\ StoreIdle /\ NoSelector /\ NoHistory /\ LedgerIdle /\ AppIdle
Next == RemoteNext
Spec == Init /\ [][Next]_vars

SpecStoreInit ==
    (RemoteInit \/ ConnectedSession) /\ WaitIdle /\ BrowserIdle /\ StoreIdle /\ NoSelector /\ NoHistory /\ LedgerIdle /\ AppIdle
SpecStoreNext == StoreNext
SpecStore == SpecStoreInit /\ [][SpecStoreNext]_vars

SpecTakeInit == ConnectedSession /\ WaitIdle /\ BrowserIdle /\ StoreIdle /\ NoSelector /\ NoHistory /\ LedgerIdle /\ AppIdle
SpecTakeNext == TakeNext
SpecTake == SpecTakeInit /\ [][SpecTakeNext]_vars

SpecVariantsInit ==
    /\ RemoteInit \/ ConnectedSession
    /\ WaitIdle /\ BrowserIdle /\ StoreIdle
    /\ SelectorIdle /\ s_variant \in Variants
    /\ NoHistory /\ LedgerIdle /\ AppIdle
SpecVariantsNext ==
    \/ SelectorNext
    \/ Return
    \/ OpCall("execute_script")
    \/ CallReply \/ CallReplyError \/ CallSendError
SpecVariants == SpecVariantsInit /\ [][SpecVariantsNext]_vars

\* The operations of a connected session, one after another, beside the
\* monitor; the outcome of the previous operation is remembered.
SpecOpsInit == ConnectedSession /\ WaitIdle /\ BrowserIdle /\ StoreIdle /\ NoSelector /\ NoHistory /\ LedgerIdle /\ AppIdle
SpecOpsNext ==
    \/ ReturnNoting
    \/ \E op \in {"navigate", "execute_script", "get_document"} : OpCall(op)
    \/ CallReply \/ CallReplyError \/ CallSendError
    \/ \E t \in Tabs :
         \/ MWhile(t) \/ MTry(t) \/ MPollListing(t) \/ MPollError(t)
         \/ MSetDetached(t) \/ MSetStopped(t)
         \/ MHandlerDetached(t) \/ MHandlerStopped(t)
         \/ MWaitEnter(t) \/ MWaitReturn(t)
         \/ TabLost(t)
    \/ Tick
SpecOps == SpecOpsInit /\ [][SpecOpsNext]_vars

\* A connected session with its monitor, operations and stop(), under
\* fair scheduling: a thread that can run gets to run, time passes, and a
\* call that has ended returns to its caller.
MonitorStep(t) ==
    \/ MWhile(t) \/ MTry(t) \/ MPollListing(t) \/ MPollError(t)
    \/ MSetDetached(t) \/ MSetStopped(t)
    \/ MHandlerDetached(t) \/ MHandlerStopped(t)
    \/ MWaitEnter(t) \/ MWaitReturn(t)

\* The steps of stop() that are the caller's thread's own; the PUT of
\* _close_tab is one of them only when no URL is set (it is not made) or
\* when it carries a timeout.
TeardownStep ==
    \/ StopTabStop \/ StopBrowser \/ StopClear \/ StopJoin \/ StopJoined
    \/ (StopTabPut /\ (dev_url = "None" \/ ClosePutTimeout # NoneTimeout))

FairScheduling ==
    /\ \A t \in Tabs : SF_vars(MonitorStep(t))
    /\ SF_vars(Tick)
    /\ WF_vars(Return)
    /\ WF_vars(TeardownStep)

SpecMonitorInit ==
    ConnectedSession /\ WaitIdle /\ BrowserIdle /\ StoreIdle /\ NoSelector /\ NoHistory /\ LedgerIdle /\ AppIdle
SpecMonitorNext ==
    \/ Return
    \/ \E op \in {"navigate", "execute_script"} : OpCall(op)
    \/ CallReply \/ CallReplyError \/ CallSendError
    \/ StopCall \/ StopTabStop \/ StopTabPut \/ StopBrowser \/ StopClear
    \/ StopJoin \/ StopJoined
    \/ \E t \in Tabs :
         \/ MWhile(t) \/ MTry(t) \/ MPollListing(t) \/ MPollError(t)
         \/ MSetDetached(t) \/ MSetStopped(t)
         \/ MHandlerDetached(t) \/ MHandlerStopped(t)
         \/ MWaitEnter(t) \/ MWaitReturn(t)
         \/ TabLost(t)
    \/ Tick
SpecMonitor == SpecMonitorInit /\ [][SpecMonitorNext]_vars /\ FairScheduling

\* The poll fails because stop() has closed the browser it asks.
MPollRefused(t) ==
    /\ chrome_browser = "None"
    /\ MPollError(t)

\* stop() beside the monitor on a connected session whose browser keeps the
\* tab and answers every poll until stop() itself closes them.  The branch
\* of the monitor for a listing without the tab is not part of it: the
\* request that closes the tab and the clearing of self._chrome_tab are one
\* step of stop(), so a listing read after it meets the cleared field.
SpecStopRaceInit ==
    ConnectedSession /\ WaitIdle /\ BrowserIdle /\ StoreIdle /\ NoSelector /\ NoHistory /\ LedgerIdle /\ AppIdle
SpecStopRaceNext ==
    \/ Return
    \/ \E op \in {"navigate", "execute_script"} : OpCall(op)
    \/ CallReply \/ CallReplyError \/ CallSendError
    \/ StopCall \/ StopTabStop \/ StopTabPut \/ StopBrowser \/ StopClear
    \/ StopJoin \/ StopJoined
    \/ \E t \in Tabs :
         \/ MWhile(t) \/ MTry(t) \/ MPollListing(t) \/ MPollRefused(t)
         \/ MHandlerDetached(t) \/ MHandlerStopped(t)
         \/ MWaitEnter(t) \/ MWaitReturn(t)
    \/ Tick
SpecStopRace == SpecStopRaceInit /\ [][SpecStopRaceNext]_vars

\* The runner's loop over its target list.
SpecRunnerInit ==
    RemoteInit /\ WaitIdle /\ BrowserIdle /\ StoreIdle /\ NoSelector /\ NoHistory /\ LedgerIdle /\ AppIdle
SpecRunnerNext == RunnerNext
SpecRunner == SpecRunnerInit /\ [][SpecRunnerNext]_vars

\* The finder across several searches.
SpecFinderInit ==
    RemoteInit /\ WaitIdle /\ BrowserIdle /\ StoreIdle /\ NoSelector /\ NoHistory /\ LedgerIdle /\ AppIdle
SpecFinderNext == FinderNext
SpecFinder == SpecFinderInit /\ [][SpecFinderNext]_vars

\* The task ledger of the backend.
SpecLedgerInit ==
    RemoteInit /\ WaitIdle /\ BrowserIdle /\ StoreIdle /\ NoSelector /\ NoHistory /\ LedgerIdle /\ AppIdle
SpecLedgerNext == LedgerNext
SpecLedger == SpecLedgerInit /\ [][SpecLedgerNext]_vars

\* The ledger with its worker scheduled fairly: the event loop resumes a
\* task whose await can complete, so a get() on a queue that holds an entry
\* returns and a sleep ends.
LedgerFairness == WF_vars(WorkerGet) /\ WF_vars(WorkerFinish)
SpecLedgerLiveInit == SpecLedgerInit
SpecLedgerLiveNext == LedgerNext
SpecLedgerLive == SpecLedgerLiveInit /\ [][SpecLedgerLiveNext]_vars /\ LedgerFairness

\* One with statement on a fresh session.
SpecWithInit == Init
SpecWithNext == WithNext
SpecWith == SpecWithInit /\ [][SpecWithNext]_vars

(***************************************************************************)
(* Claims about ChromeBrowser (SpecBrowser)                                *)
(***************************************************************************)

StartReturned == b_call = "start" /\ b_pc = "idle"
CloseReturned == b_call = "close" /\ b_pc = "idle"

\* C5: when all 15 polls of the debugging endpoint fail, start() ends with
\* an error; and whenever start() ends with an error (polls exhausted, or
\* the process gone after the settle delay) the spawned process is not
\* running and the handle is cleared: nothing is orphaned.
C5_StartFailureLeavesNoProcess ==
    /\ (StartReturned /\ b_fails = max_retries) => b_res = "ChromeException"
    /\ (StartReturned /\ b_res = "ChromeException") =>
          /\ b_process = "None"
          /\ b_os # "running"
          /\ ~b_orphan

\* All 15 polls failed against a process that ignored the graceful signal:
\* start() has failed and the process was force-killed.
C5_Witness ==
    /\ StartReturned
    /\ b_res = "ChromeException"
    /\ b_fails = max_retries
    /\ b_termed
    /\ b_killed
    /\ b_os = "exited"

\* C8: close() never raises; when it returns the process handle, the
\* remote port and the DevTools URL are cleared, whichever way termination
\* went; entered with a cleared handle it signals nothing.
C8_CloseNeverRaisesAndClears ==
    /\ b_res # "raised"
    /\ CloseReturned =>
          /\ b_res = "closed"
          /\ b_process = "None"
          /\ b_port = "None"
          /\ b_dev_url = "None"
          /\ b_entry.process = "None" =>
                (b_termed = b_entry.termed /\ b_killed = b_entry.killed)

\* close() returned after the graceful wait timed out and the process had
\* to be killed.
C8_Witness ==
    /\ CloseReturned
    /\ b_res = "closed"
    /\ b_entry.process = "Popen"
    /\ b_termed
    /\ b_killed
    /\ b_process = "None"

(***************************************************************************)
(* Claims about wait_until_finished (SpecWait)                             *)
(***************************************************************************)

WaitDone == w_pc = "done"
NumericTimeout == w_timeout # NoneTimeout

\* C9: with a numeric timeout the wrapper invokes func only while the
\* deadline is open, sleeps the fixed backoff once after every failed
\* invocation, returns the value of the first invocation that returns, and
\* otherwise stops only once the timeout has elapsed: with TimeoutError
\* naming func when throw_exception is true, with None when it is false.
C9_RetryUntilSuccessOrTimeout ==
    NumericTimeout =>
       /\ w_pc = "call" =>
             /\ w_elapsed < w_timeout
             /\ w_sleeps = w_attempts
             /\ w_attempts > 0 => w_last.kind = "exc"
       /\ w_pc = "sleep" => (w_last.kind = "exc" /\ w_sleeps + 1 = w_attempts)
       /\ WaitDone =>
             \/ /\ w_last.kind = "ok"
                /\ w_result = Returned(w_last.val)
             \/ /\ w_last.kind # "ok"
                /\ w_elapsed >= w_timeout
                /\ w_sleeps = w_attempts
                /\ w_result = IF w_throw THEN Raised("TimeoutError", FuncName)
                                         ELSE Returned("None")

\* Two invocations failed, the timeout elapsed, and TimeoutError was
\* raised.
C9_Witness ==
    /\ WaitDone
    /\ w_throw
    /\ w_attempts >= 2
    /\ w_last.kind = "exc"
    /\ w_result = Raised("TimeoutError", FuncName)

\* C10: what an invocation of func raises never reaches the caller: the
\* wrapper ends with a value func returned, with None, or with
\* TimeoutError.
C10_NoAttemptErrorEscapes ==
    /\ ~(w_result.kind = "raise" /\ w_result.exc = "AttemptError")
    /\ (WaitDone /\ NumericTimeout) =>
          w_result \in {Returned(v) : v \in FuncValues}
                          \cup {Raised("TimeoutError", FuncName)}

\* A late success: an invocation raised, a later one returned a value.
C10_Witness ==
    /\ WaitDone
    /\ w_attempts >= 2
    /\ w_sleeps >= 1
    /\ w_last.kind = "ok"
    /\ w_result = Returned("value")

(***************************************************************************)
(* Claims about ChromeRemote (Spec).  An API call's outcome is read where  *)
(* it is handed to the caller: pc = "returned".                            *)
(***************************************************************************)

OpReturned == pc = "returned" /\ call.op \in Operations
StartReturnedToCaller == pc = "returned" /\ call.op = "start"
StopReturned == pc = "returned" /\ call.op = "stop"
StartFailed == StartReturnedToCaller /\ call.res \in {"ChromeException", "TimeoutError",
                                                      "returned_unconnected"}

\* The operation made at least one call of a protocol method on its tab,
\* whose send had been wrapped by _init_tab_monitor.
CalledThroughWrappedSend ==
    OpReturned /\ call.i >= 1 /\ tab_send[call.tab] # 0

\* C1 as stated: once the monitor has seen the tab's id missing from the
\* listing, the next protocol call through the wrapped send fails with
\* 'Tab has been stopped'.
C1_CallAfterObservationFails ==
    (CalledThroughWrappedSend /\ call.missing) => call.res = "TabStopped"

\* C1, amended: once the monitor has seen the tab's id missing and has set
\* both the detachment flag and the tab's stopped flag, a protocol call
\* fails with 'Tab has been stopped' and nothing is sent for it; an error
\* of the send path of a call still in flight at that moment is reported
\* the same way; and a tab once flagged stays flagged, so every later call
\* on it fails alike.
C1_FlaggedTabFailsEveryCall ==
    /\ [](/\ (CalledThroughWrappedSend /\ call.flagged)
                => (call.res = "TabStopped" /\ call.issued = call.i - 1)
          /\ (CalledThroughWrappedSend /\ call.endflagged)
                => call.res \notin {"Transport", "Timeout", "UserAbort"})
    /\ [][\A t \in Tabs : Flagged(t) => Flagged(t)']_vars

\* A call made on a Connected session after its own monitor flagged the
\* tab has failed with 'Tab has been stopped', nothing sent.
C1_Witness ==
    /\ CalledThroughWrappedSend
    /\ call.phase = "Connected"
    /\ call.flagged
    /\ call.res = "TabStopped"
    /\ call.issued = 0

\* C2 as stated: an operation called while the session is not Connected
\* (before start(), after a failed start(), after stop()) fails with
\* NotStarted and issues no protocol call.
C2_NotConnectedFailsNotStarted ==
    (OpReturned /\ call.phase \in {"Unstarted", "Failed", "Stopped"})
        => (call.res = "NotStarted" /\ call.issued = 0)

\* C3 as stated: when start() fails, the session holds neither a browser
\* handle nor a tab handle, so that the next start() is a fresh attempt.
C3_FailedStartLeavesUnstarted ==
    StartFailed => (chrome_browser = "None" /\ chrome_tab = 0)

\* C4: when a stop() called on a Connected session returns, the browser
\* handle is None and no monitor thread is running, however the monitor's
\* steps fell between those of stop().
C4_StopLeavesNoBrowserNoThread ==
    (StopReturned /\ call.phase = "Connected")
        => /\ chrome_browser = "None"
           /\ ping_thread # 0
           /\ \A t \in Tabs : Ended(t)

\* stop() returned while the monitor was inside its loop: the thread was
\* joined after it met the cleared tab field.
C4_Witness ==
    /\ StopReturned
    /\ call.phase = "Connected"
    /\ chrome_browser = "None"
    /\ m_pc[ping_thread] = "crashed"

\* C6 as stated: stop() raises nothing and ends with the tab handle and the
\* browser handle released and the response store cleared.
C6_StopAlwaysReleases ==
    StopReturned
        => /\ call.res = "returned"
           /\ chrome_tab = 0
           /\ chrome_browser = "None"
           /\ requests = {}
           /\ response_queues = NoQueues

\* C7: stop() raises nothing, whatever the session's state; and a stop()
\* called on a session already Stopped leaves every field of the session,
\* and its tabs, as it found them.
C7_StopIdempotent ==
    StopReturned
        => /\ call.res = "returned"
           /\ call.phase = "Stopped" => SessionFields = snap

\* A second stop() has returned on a session whose first stop() had a
\* thread to join.
C7_Witness ==
    /\ StopReturned
    /\ call.phase = "Stopped"
    /\ call.res = "returned"
    /\ snap.thread # 0
    /\ SessionFields = snap

(***************************************************************************)
(* Claims about the response store (SpecStore, SpecTake)                   *)
(***************************************************************************)

Entries(q) == {q[i] : i \in 1..Len(q)}
TakeReturned == pc = "returned" /\ call.op = "wait_response"
WorkerTakeReturned == t_pc = "t_returned"
ClearReturned == pc = "returned" /\ call.op = "clear_requests"
UsableTab == chrome_tab # 0 /\ ~tab_stopped[chrome_tab]

\* What a take of pattern p that handed out exchange e leaves behind: e
\* matches p and everything still queued for p was recorded after e.
OldestOf(p, e) ==
    /\ e \in Exchanges
    /\ Matches(p, ex_url[e])
    /\ p \in DOMAIN response_queues => \A k \in Entries(response_queues[p]) : k > e

\* C11: wait_response(p) hands out the exchanges recorded for p oldest
\* first and each once; it returns empty for a pattern nothing recorded
\* matches, and on a session with a usable tab only when p's queue is
\* empty; when clear_requests() returns the log and every queue are empty.
C11_TakeIsFifoPerPattern ==
    /\ (TakeReturned /\ call.res = "exchange") => OldestOf(call.pat, call.got)
    /\ (WorkerTakeReturned /\ t_call.res = "exchange") => OldestOf(t_call.pat, t_call.got)
    /\ (TakeReturned /\ call.res = "None" /\ UsableTab /\ call.pat \in DOMAIN response_queues)
          => response_queues[call.pat] = <<>>
    /\ ClearReturned
          => (requests = {} /\ \A p \in DOMAIN response_queues : response_queues[p] = <<>>)

\* Two exchanges matching only "p1" were recorded and the second of them
\* is handed out by wait_response("p1") after the first, "p2" having
\* nothing queued.
C11_Witness ==
    /\ TakeReturned
    /\ call.pat = "p1"
    /\ call.got = 2
    /\ ex_url = [n \in Exchanges |-> IF n <= 2 THEN "u1" ELSE "none"]
    /\ requests = {1, 2}
    /\ response_queues["p1"] = <<>>
    /\ response_queues["p2"] = <<>>

Received == Surfaced(call.op, s_variant, call.res)

\* C16 as stated: navigate surfaces an answer with a non-empty errorText as
\* NavigationFailed and an error raised on a stopped tab as the tab-stopped
\* error, two different errors.
C16_NavigateErrorsDistinct ==
    (OpReturned /\ call.op = "navigate") =>
        /\ call.reply = "errorText" => Received = "NavigationFailed"
        /\ call.res = "TabStopped" => Received = "TabStopped"

\* C17 as stated: execute_script returns the value of an answer that
\* carries one, and reports ScriptException for an answer that carries
\* exception details.
C17_ScriptValueOrException ==
    (OpReturned /\ call.op = "execute_script") =>
        /\ call.reply = "value" => Received = "value"
        /\ call.reply \in {"exception", "both", "beside"} => Received = "ScriptException"

\* C18 as stated: perform_click on a session with a tab issues one
\* DOM.resolveNode and then one Runtime.callFunctionOn, two protocol calls
\* in all, and succeeds; when the resolve step fails it raises and has
\* issued no second call.
C18_ClickResolvesThenInvokes ==
    (OpReturned /\ call.op = "perform_click" /\ call.tab # 0) =>
        IF call.reply # "none"
        THEN call.issued = 2 /\ Received = "ok"
        ELSE call.issued <= 1 /\ Received \in {"TabStopped", "CallMethod", "Unexpected"}

\* The kinds of failure that belong to one operation.
ScopedFailures == {"NavigationFailed", "ScriptException", "DomUnavailable", "Timeout"}

\* The step in which an operation fails with one of these kinds.
ScopedFailureStep ==
    /\ pc # "returned"
    /\ pc' = "returned"
    /\ call'.res \in ScopedFailures

\* C19: the step in which navigate, execute_script or get_document fails
\* with NavigationFailed, ScriptException, DomUnavailable or Timeout changes
\* neither the tab handle, the browser handle, the monitor thread, the
\* tab's stopped flag, the detachment flag nor the monitor's position; the
\* failed operation has returned on the tab it was called on, still held,
\* and a Timeout is reported only for a tab the monitor has not flagged.
C19_ScopedFailureKeepsSession ==
    /\ [](  (OpReturned /\ call.res \in ScopedFailures)
               => /\ chrome_tab = call.tab
                  /\ chrome_tab # 0
                  /\ chrome_browser # "None"
                  /\ api_phase = "Connected"
                  /\ call.res = "Timeout" => ~call.endflagged)
    /\ [][ScopedFailureStep
             => UNCHANGED <<chrome_tab, chrome_browser, ping_thread, dev_url,
                            tab_vars, mon_vars, api_phase>>]_vars

\* An operation has succeeded on the tab on which the operation before it
\* failed with one of these kinds.
C19_Witness ==
    /\ OpReturned
    /\ call.res \in {"ok", "value"}
    /\ prev_res \in ScopedFailures
    /\ ~tab_stopped[call.tab]

(***************************************************************************)
(* Claims about the context manager (SpecWith)                             *)
(***************************************************************************)

\* The with statement is over: __exit__ has returned.
BlockLeft == pc = "returned" /\ call.op \in {"stop", "exit"}

TakeOutcomes == {"None", "exchange"}

\* C15: wait_response never raises.  On either thread a call that has
\* returned holds an exchange or the empty result; without a tab, on a
\* stopped tab, for an unregistered pattern or an empty queue, and after an
\* attempt that failed inside the wrapper, it is the empty result.
C15_TakeNeverRaises ==
    /\ TakeReturned =>
          /\ call.res \in TakeOutcomes
          /\ (~UsableTab \/ call.pat \notin Patterns) => call.res = "None"
    /\ WorkerTakeReturned =>
          /\ t_call.res \in TakeOutcomes
          /\ (t_call.pat \notin Patterns \/ t_call.slept) => t_call.res = "None"

\* The tab was cleared by stop() between the two reads of the field; the
\* attempt failed, the wrapper slept, and the call still returned empty.
C15_Witness ==
    /\ WorkerTakeReturned
    /\ t_call.slept
    /\ t_call.res = "None"
    /\ t_call.pat \in Patterns

(***************************************************************************)
(* Claims about wait_for_selector (SpecVariants)                           *)
(***************************************************************************)

SelReturned == s_pc = "returned"

\* C14 as stated: on a session with a tab, wait_for_selector for a selector
\* that never appears returns False, raises nothing, and does not return
\* before the timeout has elapsed, having slept between its polls.
C14_FalseOnlyAtDeadline ==
    (SelReturned /\ chrome_tab # 0)
        => /\ s_res = "False"
           /\ s_elapsed >= s_timeout
           /\ s_timeout > 0 => s_polls >= 1

(***************************************************************************)
(* Further claims about the response store (SpecStore)                     *)
(***************************************************************************)

LogReadReturned == pc = "returned" /\ call.op \in {"get_requests", "get_responses"}

\* C21 as stated: get_requests and get_responses return normally in every
\* state of the session, with every exchange that is in the flat log; with
\* nothing recorded since the last clear_requests() that is the empty list.
C21_LogReadsReturnTheLog ==
    LogReadReturned
        => /\ call.res = "ok"
           /\ call.seen = requests
           /\ Recorded = clear_mark => call.seen = {}

(***************************************************************************)
(* Claims about the task ledger (SpecLedger)                               *)
(***************************************************************************)

ReportStatuses == {"pending", "processing", "completed", "error"}

\* C22 as stated: the status recorded for a report identifier, and the one
\* a lookup returns, is pending, processing, completed or error.
C22_StatusIsOneOfFour ==
    /\ \A id \in ReportIds :
          tq_tasks[id].status # "absent" => tq_tasks[id].status \in ReportStatuses
    /\ tq_seen \in ReportStatuses \cup {"none", "None"}

(***************************************************************************)
(* Claims about start() and the monitor (Spec)                             *)
(***************************************************************************)

\* start() has returned with a tab attached and the monitor started.
StartedConnected == StartReturnedToCaller /\ call.res = "started"

DomainEnables ==
    {"Network.enable", "DOM.enable", "Page.enable", "Runtime.enable", "Log.enable"}

\* C23 as stated: when start() has left the session Connected, the browser
\* process was started by ChromeBrowser, the endpoint gave a tab, the five
\* domains were enabled on it, the user agent was overridden and the
\* script hiding navigator.webdriver was registered.
C23_ConnectedMeansSetUp ==
    StartedConnected
        => /\ b_process # "None"
           /\ chrome_tab # 0 /\ tab_ws[chrome_tab]
           /\ DomainEnables \subseteq call.done
           /\ "Network.setUserAgentOverride" \in call.done
           /\ "Page.addScriptToEvaluateOnNewDocument" \in call.done

\* The thread of tab t has left monitor_tab after a poll that met the tab
\* missing.
MonitorSawLoss(t) == m_pc[t] = "done" /\ m_missing[t]

\* The session's tab is gone from the browser while its monitor is there.
TabIsLost(t) == ping_thread = t /\ chrome_tab = t /\ ~tab_listed[t]

MonitorFlagged(t) == tab_detached[t] /\ tab_stopped[t] /\ Ended(t)

\* stop() has been called.
StopUnderWay == call.op = "stop" \/ api_phase = "Stopped"

\* C24 as stated: under fair scheduling a tab the browser has dropped
\* leads to the detachment flag and the stopped flag set and the monitor
\* thread ended.
C24_LostTabIsFlagged ==
    \A t \in Tabs : TabIsLost(t) ~> MonitorFlagged(t)

\* C24, amended: a monitor that has left its loop after a poll that did not
\* list the owned tab has set both flags; and under fair scheduling a
\* dropped tab leads to both flags set and the thread ended, or to stop()
\* having been called.
C24_LostTabIsFlaggedUnlessStopped ==
    /\ [](\A t \in Tabs :
             MonitorSawLoss(t) => (tab_detached[t] /\ tab_stopped[t]))
    /\ \A t \in Tabs : TabIsLost(t) ~> (MonitorFlagged(t) \/ StopUnderWay)

\* The listing no longer held the tab, and the monitor has flagged it and
\* ended, with no stop() called.
C24_Witness ==
    /\ ping_thread # 0
    /\ ~tab_listed[ping_thread]
    /\ m_missing[ping_thread]
    /\ MonitorFlagged(ping_thread)
    /\ ~StopUnderWay

(***************************************************************************)
(* The flat log against the per-pattern queues (SpecStore)                 *)
(***************************************************************************)

\* The exchanges that a clear_requests() begun or finished has dropped are
\* 1..ClearedUpTo.
ClearedUpTo ==
    IF call.op = "clear_requests" /\ call.mark > clear_mark THEN call.mark
                                                            ELSE clear_mark

\* Exchange n has been recorded and no clear_requests() has been called
\* since.
KeptInLog(n) == ex_url[n] # "none" /\ n > ClearedUpTo

\* No pattern's queue was given exchange n.
Unmatched(n) == \A p \in Patterns : ~Matches(p, ex_url[n])

\* C25: every exchange recorded stays in the flat log until
\* clear_requests() is called, whether or not a pattern matched its URL, and
\* get_requests returns every such exchange, those no queue captured
\* included.
C25_LogKeepsEveryExchange ==
    /\ \A n \in Exchanges : KeptInLog(n) => n \in requests
    /\ (pc = "returned" /\ call.op = "get_requests")
          => \A n \in Exchanges : KeptInLog(n) => n \in call.seen

\* get_requests has returned an exchange that matched no pattern, after
\* another exchange was recorded as well.
C25_Witness ==
    /\ pc = "returned"
    /\ call.op = "get_requests"
    /\ \E n \in call.seen : Unmatched(n) /\ \A p \in DOMAIN response_queues :
                               \A i \in 1..Len(response_queues[p]) :
                                   response_queues[p][i] # n
    /\ Cardinality(call.seen) > 1

(***************************************************************************)
(* The requests lock (SpecStore)                                           *)
(***************************************************************************)

\* The second thread's wait_response removes the head of a queue in this
\* step.
TakeStep ==
    /\ t_pc = "t_guarded"
    /\ t_pc' = "t_returned"
    /\ t_call'.res = "exchange"

\* C26: every operation that changes the flat log or a queue holds the
\* requests lock while it does, so the destructive take of wait_response is
\* never made while clear_requests() holds the lock between emptying the
\* log and draining the queues.
C26_TakeHoldsTheLock == [][TakeStep => ~LockHeld]_vars

(***************************************************************************)
(* Teardown (SpecMonitor)                                                  *)
(***************************************************************************)

StopRunning == call.op = "stop" /\ pc \notin {"idle", "returned"}

\* C27: stop() terminates in every execution: a stop() that has been
\* called returns, whatever the browser and its endpoint do.
C27_StopTerminates ==
    StopRunning ~> (call.op = "stop" /\ pc = "returned")

(***************************************************************************)
(* wait_for_selector and the page (SpecVariants)                           *)
(***************************************************************************)

\* wait_for_selector has returned after a poll made within the timeout on a
\* page that holds the element.
PolledPresent ==
    /\ s_pc = "returned"
    /\ chrome_tab # 0
    /\ s_present
    /\ s_polls > 0

\* C28: on a connected session wait_for_selector returns true as soon as a
\* poll within the timeout finds the selector present in the page, and
\* never reports false after such a poll.
C28_PresentSelectorIsFound ==
    PolledPresent => (s_res = "True" /\ s_polls = 1)

(***************************************************************************)
(* wait_response on an empty queue (SpecStore)                             *)
(***************************************************************************)

\* The second thread's wait_response for a registered pattern has returned
\* empty on a session whose tab is attached and not stopped.
EmptyTakeReturned ==
    /\ t_pc = "t_returned"
    /\ t_call.res = "None"
    /\ t_call.pat \in Patterns
    /\ chrome_tab # 0
    /\ ~tab_stopped[chrome_tab]

\* C29: a wait_response(pattern) call issued while the pattern's queue is
\* empty keeps waiting and returns empty only once the timeout has
\* elapsed: it has not returned empty without having waited between two
\* attempts.
C29_EmptyOnlyAfterWaiting ==
    EmptyTakeReturned => t_call.slept

(***************************************************************************)
(* The order of termination in ChromeBrowser.close() (SpecBrowser)         *)
(***************************************************************************)

\* The process is force-killed in this step.
KillStep == b_killed' /\ ~b_killed

\* close() begins its grace wait in this step.
GraceWaitBegins == b_pc' = "c_wait" /\ b_pc # "c_wait"

\* The grace wait ends in this step with the process gone.
ExitedInGrace == b_pc = "c_wait" /\ b_os = "exited"

\* C30: close() on a live process sends the graceful signal first; it
\* force-kills only once the grace wait has timed out or the graceful path
\* has raised, on a process that was signalled and is still running; and a
\* process that has exited within the grace period is not force-killed.
C30_KillOnlyAfterGrace ==
    [][/\ GraceWaitBegins => (b_pc = "c_signal" /\ (b_os = "running" => b_termed'))
       /\ KillStep => /\ b_pc \in {"c_kill_timeout", "c_kill_error"}
                      /\ b_termed
                      /\ b_os = "running"
       /\ ExitedInGrace => (b_pc' = "c_clear" /\ b_killed' = b_killed)]_vars

\* close() has returned for a process that was signalled and exited within
\* the grace period: no kill.
C30_Witness ==
    /\ CloseReturned
    /\ b_entry.process = "Popen"
    /\ ~b_entry.termed
    /\ b_termed
    /\ ~b_killed
    /\ b_os = "exited"

(***************************************************************************)
(* One browser handle, one tab, one monitor thread (Spec)                  *)
(***************************************************************************)

AliveMonitors == {t \in Tabs : IsAlive(t)}

\* start() is called in this step on a session that holds a browser
\* handle.
RepeatedStartStep ==
    /\ pc = "idle"
    /\ call'.op = "start"
    /\ chrome_browser # "None"

\* C31: the session holds one browser handle, one tab and one monitor
\* thread at most: no monitor thread is alive but the one in the session's
\* field; and start() on a session that holds a browser handle returns at
\* once, creating nothing and changing no field of the session, of a tab or
\* of a monitor.
C31_OneOfEachAndStartIdempotent ==
    /\ [](/\ Cardinality(AliveMonitors) <= 1
          /\ \A t \in AliveMonitors : t = ping_thread)
    /\ [][RepeatedStartStep =>
             /\ call'.res = "already_started"
             /\ UNCHANGED <<remote_vars, tab_vars, mon_vars, api_phase>>]_vars

\* start() has returned at once on a Connected session whose monitor is
\* running.
C31_Witness ==
    /\ StartReturnedToCaller
    /\ call.res = "already_started"
    /\ call.phase = "Connected"
    /\ ping_thread # 0
    /\ IsAlive(ping_thread)

(***************************************************************************)
(* Claims about the runner (SpecRunner)                                    *)
(***************************************************************************)

Attempted(k) == r_out[k] # "none"
RunFinished == r_pc = "finished"

\* C32: a Detached failure while parsing one URL ends the run, no later
\* URL of the list being attempted; a NavigationFailed, ScriptException or
\* DomUnavailable failure only skips its URL, so a run in which no URL met
\* Detached has attempted every URL of the list.
C32_DetachedFatalOthersSkipped ==
    /\ \A k \in 1..MaxUrls :
          r_out[k] = "Detached" => \A j \in (k+1)..MaxUrls : ~Attempted(j)
    /\ (RunFinished /\ \A k \in 1..MaxUrls : r_out[k] # "Detached")
          => \A k \in 1..r_urls : Attempted(k)

(***************************************************************************)
(* The order of the monitor's two flags (Spec)                             *)
(***************************************************************************)

\* A step of a monitor thread sets the stopped flag of tab t.
MonitorSetsStopped(t) ==
    /\ ~tab_stopped[t]
    /\ tab_stopped'[t]
    /\ m_pc' # m_pc

\* C33: in every interleaving the monitor sets the detachment flag before
\* the tab's stopped flag: whenever a step of the monitor sets the stopped
\* flag of a tab, that tab's detachment flag is set already; so a call
\* aborted by the stopped flag is never handed to its caller as the
\* user-abort error.
C33_DetachedBeforeStopped ==
    /\ [][\A t \in Tabs : MonitorSetsStopped(t) => tab_detached[t]]_vars
    /\ [](CalledThroughWrappedSend => call.res # "UserAbort")

\* The send of a call in flight was aborted by the stopped flag the monitor
\* had set, and the caller got 'Tab has been stopped'.
C33_Witness ==
    /\ CalledThroughWrappedSend
    /\ call.issued > 0
    /\ call.endflagged
    /\ ~call.flagged
    /\ call.res = "TabStopped"

(***************************************************************************)
(* stop() racing with the monitor (SpecStopRace)                           *)
(***************************************************************************)

\* C34: the detachment flag is set only when the monitor has observed the
\* loss of the tab on a Connected session, and a stop() of the caller
\* racing with the monitor never makes it true: where the browser keeps the
\* tab and answers until stop() closes them, no detachment flag is ever
\* set.
C34_StopNeverDetaches == \A t \in Tabs : ~tab_detached[t]

\* C35: the monitor thread never dereferences the session's tab handle
\* after stop() has cleared it: in every interleaving of stop() with the
\* monitor loop the thread leaves its loop normally and never ends with an
\* error no handler took.
C35_MonitorNeverCrashes == \A t \in Tabs : m_pc[t] # "crashed"

(***************************************************************************)
(* wrapped_send against the send it wraps (Spec)                           *)
(***************************************************************************)

\* original_send raised inside wrapped_send: call.raised is what it
\* raised, call.det the detachment flag wrapped_send then read.
SendFailed == OpReturned /\ call.raised # "none" /\ tab_send[call.tab] # 0

\* original_send returned and the operation went on with its reply.
SendAnswered == CalledThroughWrappedSend /\ call.reply # "none"

\* C36: while the detachment flag is false wrapped_send is transparent:
\* what the send returns is returned, an abort of the send is raised as the
\* user-abort error and any other error as it is; only with the flag true
\* is an error of the send replaced by 'Tab has been stopped'.
C36_WrappedSendTransparentUnlessDetached ==
    /\ (SendFailed /\ ~call.det) => call.res = call.raised
    /\ (SendFailed /\ call.det) => call.res = "TabStopped"
    /\ SendAnswered => call.res = AfterCalls(call.op, call.reply, s_variant)

\* The send of a call in flight timed out on a tab whose detachment flag
\* was not set, and the caller got the timeout as it was.
C36_Witness ==
    /\ SendFailed
    /\ call.issued > 0
    /\ ~call.det
    /\ call.raised = "Timeout"
    /\ call.res = "Timeout"

(***************************************************************************)
(* The connection attempts of start() (Spec)                               *)
(***************************************************************************)

\* An invocation of _connect_interface ends in this step.
AttemptEnds == pc = "st_connect" /\ pc' # "st_connect"

\* C37: during start() the connection attempt is retried until it succeeds
\* or the deadline elapses: an attempt that ends is a success or is
\* followed by the wrapper's wait and another look at the deadline, never
\* by giving up; and a start() that gave up at the deadline has closed the
\* browser.
C37_ConnectRetriedUntilDeadline ==
    /\ [][AttemptEnds => pc' \in {"st_setup", "st_connect_retry"}]_vars
    /\ []((StartReturnedToCaller /\ call.res = "TimeoutError")
             => chrome_browser = "None")

(***************************************************************************)
(* The subscriptions across stop() and start() (Spec)                      *)
(***************************************************************************)

\* C38: the patterns given to the constructor stay registered for the
\* whole life of the session object: whenever the session is Connected,
\* after a stop() and another start() too, every constructor pattern has
\* its queue, so that a matching response can be queued and taken.
C38_PatternsStayRegistered ==
    api_phase = "Connected" => Patterns \subseteq DOMAIN response_queues

(***************************************************************************)
(* Claims about the finder (SpecFinder)                                    *)
(***************************************************************************)

\* find_company_cards is not running: it has not been called, or it has
\* returned or raised.
FinderOutside == f_pc \in {"idle", "returned"}

\* C39: after find_company_cards has returned or raised, however the
\* session's start, the navigation and the search went, the finder holds
\* no session and every session it has constructed has had stop() called
\* on it exactly once; no session is ever stopped twice.
C39_FinderStopsEverySessionOnce ==
    /\ \A x \in Sessions : f_stops[x] <= 1
    /\ FinderOutside =>
          /\ f_remote = 0
          /\ \A x \in Sessions : f_stops[x] = IF x <= f_made THEN 1 ELSE 0

\* The second search ended with the error of its session's start(), after
\* a first search that had ended empty; both sessions were stopped.
C39_Witness ==
    /\ f_pc = "returned"
    /\ StartRaises(f_res)
    /\ f_made = 2
    /\ f_remote = 0
    /\ f_stops[1] = 1
    /\ f_stops[2] = 1

(***************************************************************************)
(* Progress of the task ledger (SpecLedgerLive)                            *)
(***************************************************************************)

Unfinished(id) == tq_tasks[id].status \in {"pending", "processing"}
Finished(id) == tq_tasks[id].status \in {"completed", "error"}
WorkerRunning == tq_pc \in {"waiting", "sleeping"}
WorkerCancelled == tq_pc = "ended"

\* The worker takes a task in hand in this step.
DequeueStep == tq_cur = 0 /\ tq_cur' # 0

\* A task is submitted in this step.
SubmitStep == Len(tq_queue') > Len(tq_queue)

\* C40: with the worker loop running and not cancelled, tasks are dequeued
\* in the order of their submission (a submission goes to the tail of the
\* queue, the worker takes its head), every submitted task eventually
\* reaches completed or error instead of staying pending or processing, and
\* a task that has reached completed or error keeps its status.
C40_TasksFinishInOrder ==
    /\ [][SubmitStep =>
             \E id \in ReportIds :
                /\ tq_queue' = Append(tq_queue, id)
                /\ tq_tasks'[id].status = "pending"]_vars
    /\ [][DequeueStep =>
             /\ tq_queue # <<>>
             /\ tq_cur' = Head(tq_queue)
             /\ tq_queue' = Tail(tq_queue)]_vars
    /\ [][\A id \in ReportIds : Finished(id) => tq_tasks'[id] = tq_tasks[id]]_vars
    /\ \A id \in ReportIds :
          (Unfinished(id) /\ WorkerRunning) ~> (Finished(id) \/ WorkerCancelled)

\* Two tasks were submitted before the worker took either; both are done,
\* the first completed and the second in error, and the worker waits.
C40_Witness ==
    /\ tq_pc = "waiting"
    /\ tq_queue = <<>>
    /\ tq_tasks[1].status = "completed"
    /\ tq_tasks[2].status = "error"

=============================================================================
